---- MODULE Spec2Model ----
(***************************************************************************)
(* uds-rs: the request/response engine of UdsClient (src/src/uds.rs), the  *)
(* NRC decoder parse_for_error, and the compose functions of the service   *)
(* codecs, as a state machine.                                             *)
(*                                                                         *)
(* send_and_receive is an async fn: its code runs without interruption     *)
(* between two .await points, so every action below is one transport       *)
(* operation (a send or a receive completing) followed by all the          *)
(* synchronous code up to the next .await or the return.                   *)
(*                                                                         *)
(* Bytes are the integers 0..255, byte strings are sequences of them.      *)
(***************************************************************************)
EXTENDS Integers, Sequences, FiniteSets, TLC

(***************************************************************************)
(* Bounds of the model.                                                    *)
(***************************************************************************)
\* Tasks that call service methods of one client.
NumTasks == 2
\* Transport operations of one exchange that are modelled one by one.
MaxTrace == 6
\* Exchanges one task starts, where exchanges are counted.
MaxCalls == 2
\* Response-pending messages the well-behaved ECU sends before a final response.
MaxPending == 2

Tasks == 1 .. NumTasks

(***************************************************************************)
(* uds_definitions.rs                                                      *)
(***************************************************************************)
SEND_RECEIVE_SID_OFFSET == 64      \* 0x40
NEGATIVE_RESPONSE_SID == 127       \* 0x7F

\* The discriminants of enum NegativeResponseCode: TryFromPrimitive accepts
\* exactly these bytes.
NegativeResponseCodes ==
    { 0, 16, 17, 18, 19, 20, 33, 34, 36, 37, 38, 49, 51, 53, 54, 55,
      112, 113, 114, 115, 120, 126, 127 } \cup (129 .. 141) \cup (143 .. 147)

BusyRepeatRequest == 33                          \* 0x21
RequestCorrectlyReceivedResponsePending == 120   \* 0x78

\* The service identifiers of the service modules.
ECU_RESET_SID == 17                       \* 0x11
CLEAR_DIAGNOSTIC_INFORMATION_SID == 20    \* 0x14
READ_DTC_INFORMATION_SID == 25            \* 0x19
READ_DATA_BY_IDENTIFIER_SID == 34         \* 0x22
READ_MEMORY_BY_ADDRESS_SID == 35          \* 0x23
WRITE_DATA_BY_IDENTIFIER_SID == 46        \* 0x2E

\* `x as u8`, and `(x >> n) as u8` for n = 8, 16.
AsU8(x) == x % 256
Shr8(x) == x \div 256
Shr16(x) == x \div 65536

\* i32, the type of retry_counter.
I32_MAX == 2147483647
I32_MIN == -2147483647 - 1

(***************************************************************************)
(* The compose functions of the services.                                  *)
(***************************************************************************)
compose_ecu_reset_request(reset_type) ==
    << ECU_RESET_SID, reset_type >>

compose_clear_diagnostic_information_request(group_of_dtc) ==
    << CLEAR_DIAGNOSTIC_INFORMATION_SID,
       AsU8(Shr16(group_of_dtc)), AsU8(Shr8(group_of_dtc)), AsU8(group_of_dtc) >>

\* The request with the identifier least significant byte first.
compose_write_data_by_identifier_request_LittleEndian(data_identifier, data_record) ==
    << WRITE_DATA_BY_IDENTIFIER_SID,
       AsU8(data_identifier), AsU8(Shr8(data_identifier)) >> \o data_record

compose_write_data_by_identifier_request(data_identifier, data_record) ==
    << WRITE_DATA_BY_IDENTIFIER_SID,
       AsU8(Shr8(data_identifier)), AsU8(data_identifier) >> \o data_record

RECURSIVE DidBytes(_)
DidBytes(data_identifiers) ==
    IF data_identifiers = << >> THEN << >>
    ELSE << AsU8(Shr8(Head(data_identifiers))), AsU8(Head(data_identifiers)) >>
         \o DidBytes(Tail(data_identifiers))

compose_read_data_by_identifier_request(data_identifiers) ==
    << READ_DATA_BY_IDENTIFIER_SID >> \o DidBytes(data_identifiers)

formulate_request(format_identifier, memory_address, memory_size) ==
    << READ_MEMORY_BY_ADDRESS_SID, format_identifier >>
    \o memory_address \o memory_size

compose_report_number_of_dtc_by_status_mask_request(subfunction, dtc_status_mask) ==
    << READ_DTC_INFORMATION_SID, subfunction, dtc_status_mask >>

compose_report_dtc_snapshot_request(sub_function, dtc_mask_record, record_number) ==
    << READ_DTC_INFORMATION_SID, sub_function,
       AsU8(Shr16(dtc_mask_record)), AsU8(Shr8(dtc_mask_record)),
       AsU8(dtc_mask_record), record_number >>

compose_request_short(sub_function) ==
    << READ_DTC_INFORMATION_SID, sub_function >>

compose_report_dtc_ext_data_by_dtc_number_request(sub_function, dtc_mask_record, record_number) ==
    << READ_DTC_INFORMATION_SID, sub_function,
       AsU8(Shr16(dtc_mask_record)), AsU8(Shr8(dtc_mask_record)),
       AsU8(dtc_mask_record), record_number >>

(***************************************************************************)
(* The service methods of UdsClient, as far as the engine sees them: the   *)
(* request each one hands to send_and_receive, and the SID of its module.  *)
(* A call is a record [svc, sid, request]; the arguments are drawn from    *)
(* small sets that contain the edge values (an empty DID list, an empty    *)
(* data record, a u32 whose top byte is dropped).                          *)
(***************************************************************************)
ServiceCall(svc, sid, request) ==
    [svc |-> svc, sid |-> sid, request |-> request]

ServiceCalls ==
    { ServiceCall("ecu_reset", ECU_RESET_SID, compose_ecu_reset_request(rt)) :
        rt \in {1, 4} }
    \cup
    { ServiceCall("clear_diagnostic_information", CLEAR_DIAGNOSTIC_INFORMATION_SID,
                  compose_clear_diagnostic_information_request(g)) :
        g \in {16777215, 2131899478} }      \* 0xFFFFFF, 0x7F123456
    \cup
    { ServiceCall("write_data_by_identifier", WRITE_DATA_BY_IDENTIFIER_SID,
                  compose_write_data_by_identifier_request(d[1], d[2])) :
        d \in { <<61840, << >> >>, <<258, <<7>> >> } }   \* 0xF190, 0x0102
    \cup
    { ServiceCall("read_data_by_identifier", READ_DATA_BY_IDENTIFIER_SID,
                  compose_read_data_by_identifier_request(ds)) :
        ds \in { << >>, <<61840>>, <<10, 20>> } }
    \cup
    { ServiceCall("read_memory_by_address", READ_MEMORY_BY_ADDRESS_SID,
                  formulate_request(a[1], a[2], a[3])) :
        a \in { <<0, << >>, << >> >>, <<18, <<18, 52>>, <<4>> >> } }
    \cup
    { ServiceCall("report_number_of_dtc_by_status_mask", READ_DTC_INFORMATION_SID,
                  compose_report_number_of_dtc_by_status_mask_request(1, 255)),
      ServiceCall("report_dtc_by_status_mask", READ_DTC_INFORMATION_SID,
                  compose_report_number_of_dtc_by_status_mask_request(2, 0)),
      ServiceCall("report_dtc_snapshot_record_by_dtc_number", READ_DTC_INFORMATION_SID,
                  compose_report_dtc_snapshot_request(4, 2131899478, 1)),
      ServiceCall("report_dtc_ext_data_record_by_dtc_number", READ_DTC_INFORMATION_SID,
                  compose_report_dtc_ext_data_by_dtc_number_request(6, 1193046, 255)),
      ServiceCall("report_most_recent_confirmed_dtc", READ_DTC_INFORMATION_SID,
                  compose_request_short(14)) }

\* send_and_receive called with a request no compose function built: the
\* zero-length request.
DirectCalls == { ServiceCall("send_and_receive", 0, << >>) }

(***************************************************************************)
(* Results.                                                                *)
(***************************************************************************)
Ok(bytes) == [kind |-> "Ok", data |-> bytes]
Err(e) == [kind |-> "Err", err |-> e]
Panic(msg) == [kind |-> "Panic", msg |-> msg]
NoResult == [kind |-> "None"]

ResponseEmpty == [type |-> "ResponseEmpty"]
RequestEmpty == [type |-> "RequestEmpty"]
NRC(rejected_sid, nrc) ==
    [type |-> "NRC", rejected_sid |-> rejected_sid, nrc |-> nrc]
UnknownNRC(rejected_sid, unknown_nrc) ==
    [type |-> "UnknownNRC", rejected_sid |-> rejected_sid, unknown_nrc |-> unknown_nrc]
SidMismatch(expected, received, raw_message) ==
    [type |-> "SidMismatch", expected |-> expected, received |-> received,
     raw_message |-> raw_message]
CommunicationError(error) == [type |-> "CommunicationError", error |-> error]

\* impl From<std::io::Error> for UdsCommunicationError: UdsSocket::send and
\* UdsSocket::receive await an io::Result, and `?` converts its error.
FromStdIoError(e) == "StdIOError"

(***************************************************************************)
(* parse_for_error with the length test moved before the SID test.         *)
(***************************************************************************)
parse_for_error_LengthFirst(raw_response) ==
    IF Len(raw_response) < 3 THEN Err(ResponseEmpty)
    ELSE IF raw_response[1] # NEGATIVE_RESPONSE_SID THEN [kind |-> "Ok"]
    ELSE IF raw_response[3] \notin NegativeResponseCodes
         THEN Err(UnknownNRC(raw_response[2], raw_response[3]))
    ELSE Err(NRC(raw_response[2], raw_response[3]))

\* parse_for_error reading the code from the last byte of the response
\* instead of the third.
parse_for_error_CodeFromLastByte(raw_response) ==
    IF Len(raw_response) < 1 THEN Err(ResponseEmpty)
    ELSE IF raw_response[1] # NEGATIVE_RESPONSE_SID THEN [kind |-> "Ok"]
    ELSE IF Len(raw_response) < 3 THEN Err(ResponseEmpty)
    ELSE IF raw_response[Len(raw_response)] \notin NegativeResponseCodes
         THEN Err(UnknownNRC(raw_response[2], raw_response[Len(raw_response)]))
    ELSE Err(NRC(raw_response[2], raw_response[Len(raw_response)]))

(***************************************************************************)
(* parse_for_error: the NRC decoder.                                       *)
(***************************************************************************)
parse_for_error(raw_response) ==
    IF Len(raw_response) < 1 THEN Err(ResponseEmpty)
    ELSE IF raw_response[1] # NEGATIVE_RESPONSE_SID THEN [kind |-> "Ok"]
    ELSE IF Len(raw_response) < 2 THEN Err(ResponseEmpty)
    ELSE IF Len(raw_response) < 3 THEN Err(ResponseEmpty)
    ELSE IF raw_response[3] \notin NegativeResponseCodes
         THEN Err(UnknownNRC(raw_response[2], raw_response[3]))
    ELSE Err(NRC(raw_response[2], raw_response[3]))

(***************************************************************************)
(* The values the service codecs return.                                   *)
(***************************************************************************)
InvalidLength(raw_message) == [type |-> "InvalidLength", raw_message |-> raw_message]
DidMismatch(expected, received, raw_message) ==
    [type |-> "DidMismatch", expected |-> expected, received |-> received,
     raw_message |-> raw_message]
ResponseIncorrect(raw_message) ==
    [type |-> "ResponseIncorrect", raw_message |-> raw_message]
InvalidArgument == [type |-> "InvalidArgument"]

\* enum DataFormat<T>
Parsed(value) == [format |-> "Parsed", value |-> value]
Raw(bytes) == [format |-> "Raw", value |-> bytes]

\* enum UdsResponse: the variant and what it carries.
UdsResponse(variant, data) == [response |-> variant, data |-> data]

\* Option<T>
None == << >>
Some(x) == << x >>

\* The two bytes of a u16 read least significant first.
U16_LittleEndian(msb, lsb) == lsb * 256 + msb

\* `((msb as u16) << 8) + lsb as u16`
U16(msb, lsb) == msb * 256 + lsb

\* `raw_response[1..]`, on a response of at least one byte.
FromSecond(raw_response) == SubSeq(raw_response, 2, Len(raw_response))

\* A u32 as its two 16-bit halves << high, low >>; u32::MAX is the length
\* that read_single_data_by_identifier passes for "the rest of the message".
U32(n) == << n \div 65536, n % 65536 >>
U32_MAX == << 65535, 65535 >>

(***************************************************************************)
(* ecu_reset.rs                                                            *)
(***************************************************************************)
ResetTypes == 1 .. 5
EnableRapidPowerShutDown == 4

EcuResetResponse(reset_type, power_down_time) ==
    [reset_type |-> reset_type, power_down_time |-> power_down_time]

\* parse_ecu_reset_response with the length test before the SID test.
parse_ecu_reset_response_LengthFirst(raw_response) ==
    IF Len(raw_response) < 1 THEN Err(ResponseEmpty)
    ELSE IF Len(raw_response) < 2 THEN Err(InvalidLength(raw_response))
    ELSE IF raw_response[1] # ECU_RESET_SID + SEND_RECEIVE_SID_OFFSET
    THEN Err(SidMismatch(ECU_RESET_SID + SEND_RECEIVE_SID_OFFSET,
                         raw_response[1], raw_response))
    ELSE IF raw_response[2] \notin ResetTypes
    THEN Err(ResponseIncorrect(raw_response))
    ELSE IF raw_response[2] # EnableRapidPowerShutDown
    THEN Ok(UdsResponse("EcuReset", Parsed(EcuResetResponse(raw_response[2], None))))
    ELSE IF Len(raw_response) < 3 THEN Err(InvalidLength(raw_response))
    ELSE Ok(UdsResponse("EcuReset",
                        Parsed(EcuResetResponse(raw_response[2], Some(raw_response[3])))))

parse_ecu_reset_response(raw_response) ==
    IF Len(raw_response) < 1 THEN Err(ResponseEmpty)
    ELSE IF raw_response[1] # ECU_RESET_SID + SEND_RECEIVE_SID_OFFSET
    THEN Err(SidMismatch(ECU_RESET_SID + SEND_RECEIVE_SID_OFFSET,
                         raw_response[1], raw_response))
    ELSE IF Len(raw_response) < 2 THEN Err(InvalidLength(raw_response))
    ELSE IF raw_response[2] \notin ResetTypes
    THEN Err(ResponseIncorrect(raw_response))
    ELSE IF raw_response[2] # EnableRapidPowerShutDown
    THEN Ok(UdsResponse("EcuReset", Parsed(EcuResetResponse(raw_response[2], None))))
    ELSE IF Len(raw_response) < 3 THEN Err(InvalidLength(raw_response))
    ELSE Ok(UdsResponse("EcuReset",
                        Parsed(EcuResetResponse(raw_response[2], Some(raw_response[3])))))

(***************************************************************************)
(* clear_diagnostic_information.rs                                         *)
(***************************************************************************)
parse_clear_diagnostic_information_response(raw_response) ==
    IF Len(raw_response) < 1 THEN Err(ResponseEmpty)
    ELSE IF raw_response[1] # CLEAR_DIAGNOSTIC_INFORMATION_SID + SEND_RECEIVE_SID_OFFSET
    THEN Err(SidMismatch(CLEAR_DIAGNOSTIC_INFORMATION_SID + SEND_RECEIVE_SID_OFFSET,
                         raw_response[1], raw_response))
    ELSE Ok(UdsResponse("ClearDiagnosticInformation", None))

(***************************************************************************)
(* write_data_by_identifier.rs                                             *)
(***************************************************************************)
WriteDataByIdentifierResponse(data_identifier) == [data_identifier |-> data_identifier]

\* parse_write_data_by_identifier_response with a missing low byte of the
\* identifier read as 0.
parse_write_data_by_identifier_response_PadsLsb(raw_response) ==
    IF Len(raw_response) < 1 THEN Err(ResponseEmpty)
    ELSE IF raw_response[1] # WRITE_DATA_BY_IDENTIFIER_SID + SEND_RECEIVE_SID_OFFSET
    THEN Err(SidMismatch(WRITE_DATA_BY_IDENTIFIER_SID + SEND_RECEIVE_SID_OFFSET,
                         raw_response[1], raw_response))
    ELSE IF Len(raw_response) < 2 THEN Err(InvalidLength(raw_response))
    ELSE IF Len(raw_response) < 3
    THEN Ok(UdsResponse("WriteDataByIdentifier",
                        Parsed(WriteDataByIdentifierResponse(U16(raw_response[2], 0)))))
    ELSE Ok(UdsResponse("WriteDataByIdentifier",
                        Parsed(WriteDataByIdentifierResponse(
                                   U16(raw_response[2], raw_response[3])))))

parse_write_data_by_identifier_response(raw_response) ==
    IF Len(raw_response) < 1 THEN Err(ResponseEmpty)
    ELSE IF raw_response[1] # WRITE_DATA_BY_IDENTIFIER_SID + SEND_RECEIVE_SID_OFFSET
    THEN Err(SidMismatch(WRITE_DATA_BY_IDENTIFIER_SID + SEND_RECEIVE_SID_OFFSET,
                         raw_response[1], raw_response))
    ELSE IF Len(raw_response) < 2 THEN Err(InvalidLength(raw_response))
    ELSE IF Len(raw_response) < 3 THEN Err(InvalidLength(raw_response))
    ELSE Ok(UdsResponse("WriteDataByIdentifier",
                        Parsed(WriteDataByIdentifierResponse(
                                   U16(raw_response[2], raw_response[3])))))

(***************************************************************************)
(* read_data_by_identifier.rs                                              *)
(***************************************************************************)
DataRecord(data_identifier, data) == [data_identifier |-> data_identifier, data |-> data]

ReadDataByIdentifierResponse(data_records) == [data_records |-> data_records]

parse_read_data_by_identifier_response(raw_response) ==
    IF Len(raw_response) < 1 THEN Err(ResponseEmpty)
    ELSE IF raw_response[1] # READ_DATA_BY_IDENTIFIER_SID + SEND_RECEIVE_SID_OFFSET
    THEN Err(SidMismatch(READ_DATA_BY_IDENTIFIER_SID + SEND_RECEIVE_SID_OFFSET,
                         raw_response[1], raw_response))
    ELSE Ok(UdsResponse("ReadDataByIdentifier", Raw(FromSecond(raw_response))))

\* The `for &(did, len) in data_identifiers_and_lengths` loop of
\* parse_read_data_by_identifier_tuple_response: `position` is the index of
\* the byte response_iterator yields next, data_records the records pushed
\* so far.  A finite len of 65536 or more asks for more bytes than a
\* response holds, so that `for _ in 0..len` ends in InvalidLength.
RECURSIVE ForDidAndLen(_, _, _, _)
ForDidAndLen(data_identifiers_and_lengths, raw_response, position, data_records) ==
    IF data_identifiers_and_lengths = << >>
    THEN Ok(UdsResponse("ReadDataByIdentifier",
                        Parsed(ReadDataByIdentifierResponse(data_records))))
    ELSE
      LET did == Head(data_identifiers_and_lengths)[1]
          len == Head(data_identifiers_and_lengths)[2]
      IN
      IF Len(raw_response) < position THEN Err(InvalidLength(raw_response))
      ELSE IF Len(raw_response) < position + 1 THEN Err(InvalidLength(raw_response))
      ELSE
        LET response_did == U16(raw_response[position], raw_response[position + 1]) IN
        IF did # response_did
        THEN Err(DidMismatch(did, response_did, raw_response))
        ELSE IF len # U32_MAX
        THEN IF len[1] # 0 \/ Len(raw_response) < position + 1 + len[2]
             THEN Err(InvalidLength(raw_response))
             ELSE ForDidAndLen(
                      Tail(data_identifiers_and_lengths), raw_response,
                      position + 2 + len[2],
                      Append(data_records,
                             DataRecord(response_did,
                                        SubSeq(raw_response, position + 2,
                                               position + 1 + len[2]))))
        ELSE ForDidAndLen(
                 Tail(data_identifiers_and_lengths), raw_response,
                 Len(raw_response) + 1,
                 Append(data_records,
                        DataRecord(response_did,
                                   SubSeq(raw_response, position + 2, Len(raw_response)))))

\* What a mutated tuple parse does to the result of the loop.
DropEmptyRecords(parsed) ==
    IF parsed.kind # "Ok" THEN parsed
    ELSE Ok(UdsResponse("ReadDataByIdentifier",
                        Parsed(ReadDataByIdentifierResponse(
                                   SelectSeq(parsed.data.data.value.data_records,
                                             LAMBDA r : r.data # << >>)))))

ExpectFirstDid(parsed, data_identifiers_and_lengths) ==
    IF parsed.kind = "Err" /\ parsed.err.type = "DidMismatch"
    THEN Err(DidMismatch(data_identifiers_and_lengths[1][1], parsed.err.received,
                         parsed.err.raw_message))
    ELSE parsed

\* parse_read_data_by_identifier_tuple_response leaving out the records
\* that have no data.
parse_read_data_by_identifier_tuple_response_DropsEmpty(data_identifiers_and_lengths, raw_response) ==
    IF Len(raw_response) < 1 THEN Err(InvalidLength(raw_response))
    ELSE IF raw_response[1] # READ_DATA_BY_IDENTIFIER_SID + SEND_RECEIVE_SID_OFFSET
    THEN Err(SidMismatch(READ_DATA_BY_IDENTIFIER_SID + SEND_RECEIVE_SID_OFFSET,
                         raw_response[1], raw_response))
    ELSE DropEmptyRecords(ForDidAndLen(data_identifiers_and_lengths, raw_response, 2, << >>))

\* parse_read_data_by_identifier_tuple_response reporting the first
\* requested identifier as the expected one of every DidMismatch.
parse_read_data_by_identifier_tuple_response_ExpectsFirst(data_identifiers_and_lengths, raw_response) ==
    IF Len(raw_response) < 1 THEN Err(InvalidLength(raw_response))
    ELSE IF raw_response[1] # READ_DATA_BY_IDENTIFIER_SID + SEND_RECEIVE_SID_OFFSET
    THEN Err(SidMismatch(READ_DATA_BY_IDENTIFIER_SID + SEND_RECEIVE_SID_OFFSET,
                         raw_response[1], raw_response))
    ELSE ExpectFirstDid(ForDidAndLen(data_identifiers_and_lengths, raw_response, 2, << >>),
                        data_identifiers_and_lengths)

parse_read_data_by_identifier_tuple_response(data_identifiers_and_lengths, raw_response) ==
    IF Len(raw_response) < 1 THEN Err(InvalidLength(raw_response))
    ELSE IF raw_response[1] # READ_DATA_BY_IDENTIFIER_SID + SEND_RECEIVE_SID_OFFSET
    THEN Err(SidMismatch(READ_DATA_BY_IDENTIFIER_SID + SEND_RECEIVE_SID_OFFSET,
                         raw_response[1], raw_response))
    ELSE ForDidAndLen(data_identifiers_and_lengths, raw_response, 2, << >>)

\* read_single_data_by_identifier with a length of 0 in place of u32::MAX.
read_single_data_by_identifier_ZeroLength(data_identifier) ==
    << << data_identifier, U32(0) >> >>

\* read_single_data_by_identifier: the pairs it hands to
\* read_data_by_identifier_tuple.
read_single_data_by_identifier(data_identifier) ==
    << << data_identifier, U32_MAX >> >>

\* read_data_by_identifier taking the single-identifier path for every
\* non-empty slice.
read_data_by_identifier_SingleForAny(data_identifiers, raw_response) ==
    IF Len(data_identifiers) >= 1
    THEN parse_read_data_by_identifier_tuple_response(
             read_single_data_by_identifier(data_identifiers[1]), raw_response)
    ELSE parse_read_data_by_identifier_response(raw_response)

\* read_data_by_identifier: what it does with the response that
\* send_and_receive returned.
read_data_by_identifier(data_identifiers, raw_response) ==
    IF Len(data_identifiers) = 1
    THEN parse_read_data_by_identifier_tuple_response(
             read_single_data_by_identifier(data_identifiers[1]), raw_response)
    ELSE parse_read_data_by_identifier_response(raw_response)

\* read_data_by_identifier_tuple: the identifiers it composes its request of.
RECURSIVE TupleIdentifiers(_)
TupleIdentifiers(data_identifiers_and_lengths) ==
    IF data_identifiers_and_lengths = << >> THEN << >>
    ELSE << Head(data_identifiers_and_lengths)[1] >>
         \o TupleIdentifiers(Tail(data_identifiers_and_lengths))

(***************************************************************************)
(* read_memory_by_address.rs                                               *)
(***************************************************************************)
ReadMemoryByAddressResponse(data_record) == [data_record |-> data_record]

\* `raw_response[0]` panics on a slice of length 0.
parse_response(raw_response) ==
    IF Len(raw_response) < 1
    THEN Panic("index out of bounds: the len is 0 but the index is 0")
    ELSE IF raw_response[1] # READ_MEMORY_BY_ADDRESS_SID + SEND_RECEIVE_SID_OFFSET
    THEN Err(SidMismatch(READ_MEMORY_BY_ADDRESS_SID + SEND_RECEIVE_SID_OFFSET,
                         raw_response[1], raw_response))
    ELSE Ok(UdsResponse("ReadMemoryByAddress",
                        Parsed(ReadMemoryByAddressResponse(FromSecond(raw_response)))))

\* A u64 as its eight bytes, most significant first (u64::to_be_bytes).
U64_BYTES == 8
U64Zero == [i \in 1 .. U64_BYTES |-> 0]

\* `i >> 8` on a u64.
Shr8U64(i) == << 0 >> \o SubSeq(i, 1, U64_BYTES - 1)

\* `while i > 0 { i = i >> 8; encode_bytes += 1; }`
RECURSIVE EncodeBytes(_)
EncodeBytes(i) ==
    IF i = U64Zero THEN 0 ELSE 1 + EncodeBytes(Shr8U64(i))

\* `if let Some(mut provided_len) = .. { .. }`: the width after the block,
\* or the InvalidArgument it returns.
ProvidedLen(provided_len, encode_bytes) ==
    IF provided_len = None THEN [ok |-> TRUE, encode_bytes |-> encode_bytes]
    ELSE
      LET provided == IF provided_len[1] > 8 THEN 8 ELSE provided_len[1] IN
      IF provided < encode_bytes THEN [ok |-> FALSE, encode_bytes |-> encode_bytes]
      ELSE IF provided > encode_bytes THEN [ok |-> TRUE, encode_bytes |-> provided]
      ELSE [ok |-> TRUE, encode_bytes |-> encode_bytes]

\* `value.to_be_bytes().as_slice()[(8 - encode_bytes as usize)..]`
LastBytes(value, encode_bytes) ==
    SubSeq(value, U64_BYTES - encode_bytes + 1, U64_BYTES)

convert_from_simple_to_normal(memory_address, memory_size, memory_address_len, memory_size_len) ==
    LET address == ProvidedLen(memory_address_len, EncodeBytes(memory_address))
        size == ProvidedLen(memory_size_len, EncodeBytes(memory_size))
    IN
    IF ~ address.ok THEN Err(InvalidArgument)
    ELSE IF ~ size.ok THEN Err(InvalidArgument)
    ELSE Ok(<< AsU8(size.encode_bytes * 16) + address.encode_bytes,
               LastBytes(memory_address, address.encode_bytes),
               LastBytes(memory_size, size.encode_bytes) >>)

(***************************************************************************)
(* read_dtc_information.rs                                                 *)
(***************************************************************************)
\* enum SubFunction (TryFromPrimitive): 0x01 .. 0x19, 0x42, 0x55.
SubFunctions == (1 .. 25) \cup {66, 85}

\* enum DTCFormat (TryFromPrimitive).
DTCFormats == 0 .. 4

\* The sub-functions whose response is a count, and those whose response
\* is a list of DTCs: the arms of the two `match`es.
CountSubFunctions == {1, 7, 17, 18}
ListSubFunctions_WithCounts == {1, 2, 7, 10, 11, 12, 13, 14, 15, 17, 18, 19, 21}
ListSubFunctions == {2, 10, 11, 12, 13, 14, 15, 19, 21}

\* enum ReadDTCInformationResponse: the variant named after the
\* sub-function, and what it carries.
ReadDTCInformationResponse(sub_function, parsed) ==
    [sub_function |-> sub_function, parsed |-> parsed]

ReportNumberOfDTCByMaskResponse(dtc_status_availability_mask, dtc_format_identifier, dtc_count) ==
    [dtc_status_availability_mask |-> dtc_status_availability_mask,
     dtc_format_identifier |-> dtc_format_identifier,
     dtc_count |-> dtc_count]

parse_report_number_of_dtc_by_status_mask_response(raw_response) ==
    IF Len(raw_response) < 1 THEN Err(ResponseEmpty)
    ELSE IF raw_response[1] # READ_DTC_INFORMATION_SID + SEND_RECEIVE_SID_OFFSET
    THEN Err(SidMismatch(READ_DTC_INFORMATION_SID + SEND_RECEIVE_SID_OFFSET,
                         raw_response[1], raw_response))
    ELSE IF Len(raw_response) < 2 THEN Err(InvalidLength(raw_response))
    ELSE IF raw_response[2] \notin SubFunctions THEN Err(ResponseIncorrect(raw_response))
    ELSE IF Len(raw_response) < 3 THEN Err(InvalidLength(raw_response))
    ELSE IF Len(raw_response) < 4 THEN Err(InvalidLength(raw_response))
    ELSE IF raw_response[4] \notin DTCFormats THEN Err(ResponseIncorrect(raw_response))
    ELSE IF Len(raw_response) < 5 THEN Err(InvalidLength(raw_response))
    ELSE IF Len(raw_response) < 6 THEN Err(InvalidLength(raw_response))
    ELSE IF raw_response[2] \notin CountSubFunctions THEN Err(InvalidArgument)
    ELSE Ok(UdsResponse("ReadDTCInformation",
                        Parsed(ReadDTCInformationResponse(
                                   raw_response[2],
                                   ReportNumberOfDTCByMaskResponse(
                                       raw_response[3], raw_response[4],
                                       U16(raw_response[5], raw_response[6]))))))

DTCAndStatusRecord(dtc, status_of_dtc) == [dtc |-> dtc, status_of_dtc |-> status_of_dtc]

ReportDTCsResponse(dtc_status_availability_mask, dtc_and_status_records) ==
    [dtc_status_availability_mask |-> dtc_status_availability_mask,
     dtc_and_status_records |-> dtc_and_status_records]

\* The three bytes of a DTC read least significant first.
Dtc_LittleEndian(high_byte, middle_byte, low_byte) ==
    low_byte * 65536 + middle_byte * 256 + high_byte

\* `((high_byte as u32) << 16) + ((middle_byte as u32) << 8) + low_byte as u32`
Dtc(high_byte, middle_byte, low_byte) ==
    high_byte * 65536 + middle_byte * 256 + low_byte

\* `while let Some(&high_byte) = response_iter.next()` of parse_report_dtcs:
\* the records read from `position` on, or the InvalidLength of a record
\* that is cut short.
RECURSIVE WhileLetHighByte(_, _, _)
WhileLetHighByte(raw_response, position, dtc_and_status_records) ==
    IF Len(raw_response) < position
    THEN [ok |-> TRUE, dtc_and_status_records |-> dtc_and_status_records]
    ELSE IF Len(raw_response) < position + 3
    THEN [ok |-> FALSE, dtc_and_status_records |-> << >>]
    ELSE WhileLetHighByte(
             raw_response, position + 4,
             Append(dtc_and_status_records,
                    DTCAndStatusRecord(Dtc(raw_response[position],
                                           raw_response[position + 1],
                                           raw_response[position + 2]),
                                       raw_response[position + 3])))

parse_report_dtcs(raw_response) ==
    IF Len(raw_response) < 1 THEN Err(ResponseEmpty)
    ELSE IF raw_response[1] # READ_DTC_INFORMATION_SID + SEND_RECEIVE_SID_OFFSET
    THEN Err(SidMismatch(READ_DTC_INFORMATION_SID + SEND_RECEIVE_SID_OFFSET,
                         raw_response[1], raw_response))
    ELSE IF Len(raw_response) < 2 THEN Err(InvalidLength(raw_response))
    ELSE IF Len(raw_response) < 3 THEN Err(InvalidLength(raw_response))
    ELSE
      LET records == WhileLetHighByte(raw_response, 4, << >>) IN
      IF ~ records.ok THEN Err(InvalidLength(raw_response))
      ELSE IF raw_response[2] \notin SubFunctions THEN Err(ResponseIncorrect(raw_response))
      ELSE IF raw_response[2] \notin ListSubFunctions THEN Err(InvalidArgument)
      ELSE Ok(UdsResponse("ReadDTCInformation",
                          Parsed(ReadDTCInformationResponse(
                                     raw_response[2],
                                     ReportDTCsResponse(raw_response[3],
                                                        records.dtc_and_status_records)))))

parse_report_dtc_snapshot_record_by_dtc_number_response(raw_response) ==
    IF Len(raw_response) < 1 THEN Err(ResponseEmpty)
    ELSE IF raw_response[1] # READ_DTC_INFORMATION_SID + SEND_RECEIVE_SID_OFFSET
    THEN Err(SidMismatch(READ_DTC_INFORMATION_SID + SEND_RECEIVE_SID_OFFSET,
                         raw_response[1], raw_response))
    ELSE Ok(UdsResponse("ReadDTCInformation", Raw(FromSecond(raw_response))))

parse_report_dtc_ext_data_by_dtc_number_response(raw_response) ==
    IF Len(raw_response) < 1 THEN Err(ResponseEmpty)
    ELSE IF raw_response[1] # READ_DTC_INFORMATION_SID + SEND_RECEIVE_SID_OFFSET
    THEN Err(SidMismatch(READ_DTC_INFORMATION_SID + SEND_RECEIVE_SID_OFFSET,
                         raw_response[1], raw_response))
    ELSE Ok(UdsResponse("ReadDTCInformation", Raw(FromSecond(raw_response))))

(***************************************************************************)
(* The service methods with their arguments: each composes its request,    *)
(* hands it to send_and_receive and gives the response to the parse        *)
(* function of its module.  A call is a record [svc, sid, args, request],  *)
(* args the record of the method's arguments under their names.            *)
(***************************************************************************)
MethodCall(svc, sid, args, request) ==
    [svc |-> svc, sid |-> sid, args |-> args, request |-> request]

\* The (identifier, length) pairs read_data_by_identifier_tuple is called
\* with: none, one and two pairs, lengths 0, 1 and 2, u32::MAX alone and
\* before another pair, and finite lengths no response can hold.
TuplePairs ==
    { << >>,
      << << 10, U32(1) >> >>,
      << << 10, U32(1) >>, << 20, U32(2) >> >>,
      << << 61840, U32(0) >>, << 258, U32(1) >> >>,
      << << 258, U32(2) >>, << 10, U32(0) >> >>,
      << << 10, U32_MAX >> >>,
      << << 10, U32_MAX >>, << 20, U32(1) >> >>,
      << << 10, U32(65536) >> >>,
      << << 10, << 65535, 65534 >> >> >> }

MethodCalls ==
    { MethodCall("ecu_reset", ECU_RESET_SID, [reset_type |-> rt],
                 compose_ecu_reset_request(rt)) :
        rt \in ResetTypes }
    \cup
    { MethodCall("clear_diagnostic_information", CLEAR_DIAGNOSTIC_INFORMATION_SID,
                 [group_of_dtc |-> g],
                 compose_clear_diagnostic_information_request(g)) :
        g \in {16777215} }
    \cup
    { MethodCall("write_data_by_identifier", WRITE_DATA_BY_IDENTIFIER_SID,
                 [data_identifier |-> d[1], data_record |-> d[2]],
                 compose_write_data_by_identifier_request(d[1], d[2])) :
        d \in { << 61840, << >> >>, << 258, << 7 >> >>, << 0, << >> >>,
                << 255, << 7, 0 >> >>, << 65535, << >> >> } }
    \cup
    { MethodCall("read_data_by_identifier", READ_DATA_BY_IDENTIFIER_SID,
                 [data_identifiers |-> ds],
                 compose_read_data_by_identifier_request(ds)) :
        ds \in { << >>, << 10 >>, << 61840 >>, << 10, 20 >>, << 10, 20, 258 >> } }
    \cup
    { MethodCall("read_data_by_identifier_tuple", READ_DATA_BY_IDENTIFIER_SID,
                 [data_identifiers_and_lengths |-> ps],
                 compose_read_data_by_identifier_request(TupleIdentifiers(ps))) :
        ps \in TuplePairs }
    \cup
    { MethodCall("read_memory_by_address", READ_MEMORY_BY_ADDRESS_SID,
                 [address_and_memory_length_format_identifier |-> a[1],
                  memory_address |-> a[2], memory_size |-> a[3]],
                 formulate_request(a[1], a[2], a[3])) :
        a \in { << 18, << 18, 52 >>, << 4 >> >> } }
    \cup
    { MethodCall("report_number_of_dtc_by_status_mask", READ_DTC_INFORMATION_SID,
                 [dtc_status_mask |-> 255],
                 compose_report_number_of_dtc_by_status_mask_request(1, 255)),
      MethodCall("report_dtc_by_status_mask", READ_DTC_INFORMATION_SID,
                 [dtc_status_mask |-> 8],
                 compose_report_number_of_dtc_by_status_mask_request(2, 8)),
      MethodCall("report_dtc_snapshot_record_by_dtc_number", READ_DTC_INFORMATION_SID,
                 [dtc_mask_record |-> 1193046, dtc_snapshot_record_number |-> 1],
                 compose_report_dtc_snapshot_request(4, 1193046, 1)),
      MethodCall("report_dtc_ext_data_record_by_dtc_number", READ_DTC_INFORMATION_SID,
                 [dtc_mask_record |-> 1193046, dtc_ext_data_record_number |-> 255],
                 compose_report_dtc_ext_data_by_dtc_number_request(6, 1193046, 255)),
      MethodCall("report_most_recent_confirmed_dtc", READ_DTC_INFORMATION_SID,
                 [sub_function |-> 14],
                 compose_request_short(14)) }

\* `let response = parse_..(&raw_response); response` of each service method.
ServiceParse(call, raw_response) ==
    CASE call.svc = "ecu_reset" -> parse_ecu_reset_response(raw_response)
      [] call.svc = "clear_diagnostic_information" ->
           parse_clear_diagnostic_information_response(raw_response)
      [] call.svc = "write_data_by_identifier" ->
           parse_write_data_by_identifier_response(raw_response)
      [] call.svc = "read_data_by_identifier" ->
           read_data_by_identifier(call.args.data_identifiers, raw_response)
      [] call.svc = "read_data_by_identifier_tuple" ->
           parse_read_data_by_identifier_tuple_response(call.args.data_identifiers_and_lengths,
                                                        raw_response)
      [] call.svc = "read_memory_by_address" -> parse_response(raw_response)
      [] call.svc = "report_number_of_dtc_by_status_mask" ->
           parse_report_number_of_dtc_by_status_mask_response(raw_response)
      [] call.svc = "report_dtc_by_status_mask" -> parse_report_dtcs(raw_response)
      [] call.svc = "report_most_recent_confirmed_dtc" -> parse_report_dtcs(raw_response)
      [] call.svc = "report_dtc_snapshot_record_by_dtc_number" ->
           parse_report_dtc_snapshot_record_by_dtc_number_response(raw_response)
      [] call.svc = "report_dtc_ext_data_record_by_dtc_number" ->
           parse_report_dtc_ext_data_by_dtc_number_response(raw_response)

\* `self.send_and_receive(&request).await?` followed by the parse: an error
\* or a panic of the exchange is the outcome of the method.
ServiceResult(call, exchange) ==
    IF exchange.kind = "Ok" THEN ServiceParse(call, exchange.data) ELSE exchange

(***************************************************************************)
(* The inputs the pure functions are applied to.                           *)
(***************************************************************************)
MaxShort == 3      \* every response of up to MaxShort bytes over the alphabet
MaxDecoded == 4    \* every input of parse_for_error of up to MaxDecoded bytes
MaxData == 2       \* data bytes of a record read to the end of the message

SeqsUpTo(alphabet, n) == UNION { [1 .. k -> alphabet] : k \in 0 .. n }

Prefixes(w) == { SubSeq(w, 1, n) : n \in 0 .. Len(w) }

\* A response and what becomes of it when it is cut short, when a byte is
\* appended and when one of its bytes is another one.
Variants(w) ==
    Prefixes(w)
    \cup { w \o << b >> : b \in {0, 255} }
    \cup { [w EXCEPT ![i] = (w[i] + 1) % 256] : i \in 1 .. Len(w) }

DataBytes == {0, 7}

\* The bytes of a response to `data_identifiers_and_lengths` after the SID:
\* each identifier, big-endian, and data of the length asked for (of up to
\* MaxData bytes where the length is u32::MAX, one byte where no response
\* can hold it).
RECURSIVE TupleBodies(_)
TupleBodies(data_identifiers_and_lengths) ==
    IF data_identifiers_and_lengths = << >> THEN { << >> }
    ELSE
      LET did == Head(data_identifiers_and_lengths)[1]
          len == Head(data_identifiers_and_lengths)[2]
          datas == IF len = U32_MAX THEN SeqsUpTo(DataBytes, MaxData)
                   ELSE IF len[1] # 0 THEN { << 7 >> }
                   ELSE [1 .. len[2] -> DataBytes]
      IN { << AsU8(Shr8(did)), AsU8(did) >> \o data \o rest :
             data \in datas, rest \in TupleBodies(Tail(data_identifiers_and_lengths)) }

\* Sub-function bytes of a count report, of a list report, of neither group
\* and of no sub-function at all.
OtherSubFunctions == {1, 2, 4, 6, 0, 26, 255}

\* Well-formed responses to a call: for EcuReset and WriteDataByIdentifier
\* the ones that echo the bytes of the request, for ReadDTCInformation the
\* reports of every sub-function of the two typed groups and of
\* OtherSubFunctions.
Samples(call) ==
    LET sid == call.sid + SEND_RECEIVE_SID_OFFSET IN
    CASE call.svc = "ecu_reset" ->
           { << sid, 1 >>, << sid, 4, 50 >>, << sid, 5 >>, << sid, 3, 9 >>,
             << sid, call.request[2] >>, << sid, call.request[2], 50 >> }
      [] call.svc = "clear_diagnostic_information" -> { << sid >> }
      [] call.svc = "write_data_by_identifier" ->
           { << sid >> \o SubSeq(call.request, 2, 3) }
      [] call.svc = "read_data_by_identifier" ->
           { << sid >> \o body :
               body \in TupleBodies([i \in 1 .. Len(call.args.data_identifiers) |->
                                       << call.args.data_identifiers[i], U32(i - 1) >>]) }
           \cup
           { << sid >> \o DidBytes(call.args.data_identifiers) \o data :
               data \in SeqsUpTo(DataBytes, MaxData) }
      [] call.svc = "read_data_by_identifier_tuple" ->
           { << sid >> \o body : body \in TupleBodies(call.args.data_identifiers_and_lengths) }
      [] call.svc = "read_memory_by_address" -> { << sid >>, << sid, 1, 2, 3 >> }
      [] OTHER ->
           { << sid, sf, 24, fmt, 16, 15 >> :
               sf \in CountSubFunctions \cup OtherSubFunctions, fmt \in {0, 1, 4, 5} }
           \cup { << sid, 1, 255, 4, 255, 255 >> }
           \cup { << sid, sf, 255 >> : sf \in ListSubFunctions \cup OtherSubFunctions }
           \cup { << sid, sf, 8, 18, 52, 86, 9 >> :
                    sf \in ListSubFunctions \cup OtherSubFunctions }
           \cup { << sid, 2, 8, 18, 52, 86, 9, 255, 0, 1, 47 >>,
                  << sid, 21, 0, 255, 255, 255, 255, 0, 0, 0, 0, 1, 2, 3, 4 >> }

Alphabet(call) ==
    { call.sid + SEND_RECEIVE_SID_OFFSET, NEGATIVE_RESPONSE_SID, 0, 1, 4, 10 }

\* The responses the parse function of a call is applied to.
Responses(call) ==
    SeqsUpTo(Alphabet(call), MaxShort) \cup UNION { Variants(w) : w \in Samples(call) }

\* The inputs of parse_for_error: the negative response SID, a SID, the two
\* retry codes, a byte that is no code and a positive response SID.
DecoderBytes == { NEGATIVE_RESPONSE_SID, 17, 33, 120, 255, 81 }
DecoderInputs == SeqsUpTo(DecoderBytes, MaxDecoded)

\* u64 arguments of convert_from_simple_to_normal, 0 and u64::MAX among
\* them, and the optional widths.
U64(bytes) == [i \in 1 .. U64_BYTES - Len(bytes) |-> 0] \o bytes

U64Values ==
    { U64(bytes) :
        bytes \in { << >>, << 1 >>, << 255 >>, << 1, 0 >>, << 67, 33 >>,
                    << 18, 52, 86, 120 >>, << 1, 0, 0, 0, 0 >>,
                    << 1, 0, 0, 0, 0, 0, 0, 0 >>,
                    << 255, 255, 255, 255, 255, 255, 255, 255 >> } }

ProvidedLens == { None, Some(0), Some(1), Some(2), Some(4), Some(8), Some(9), Some(255) }

ConvertCalls ==
    { MethodCall("convert_from_simple_to_normal", READ_MEMORY_BY_ADDRESS_SID,
                 [memory_address |-> a, memory_size |-> s,
                  memory_address_len |-> al, memory_size_len |-> sl], << >>) :
        a \in U64Values, s \in U64Values, al \in ProvidedLens, sl \in ProvidedLens }

DecoderCall ==
    MethodCall("parse_for_error", NEGATIVE_RESPONSE_SID, [sid |-> NEGATIVE_RESPONSE_SID], << >>)

(***************************************************************************)
(* State.  Every local of send_and_receive is a function of the task that  *)
(* runs the call; the socket is shared by the tasks of the client.         *)
(***************************************************************************)
VARIABLES
    pc,              \* task -> where its call of send_and_receive stands
    service,         \* task -> the call it made (a ServiceCall record)
    request,         \* task -> the argument `request`
    raw_response,    \* task -> the local `raw_response`
    retry_counter,   \* task -> the local `retry_counter` (i32)
    result,          \* task -> what send_and_receive returned
    trace,           \* task -> the transport operations of its exchange, in order
    skipped,         \* task -> sizes of the runs of busy round trips taken in one step
    calls,           \* task -> exchanges it has started
    wire,            \* responses the ECU has produced and nobody has received
    overflow_checks  \* the build: TRUE with overflow checks (debug), FALSE without

vars == << pc, service, request, raw_response, retry_counter, result, trace,
           skipped, calls, wire, overflow_checks >>

locals == << pc, service, request, raw_response, retry_counter, result, trace >>

NoCall == ServiceCall("none", 0, << >>)

Last(s) == s[Len(s)]

\* One transport operation: op is "send" or "recv", ok whether it succeeded,
\* data the bytes written or read, at the .await it completed.
Event(op, ok, data, at) == [op |-> op, ok |-> ok, data |-> data, at |-> at]

(***************************************************************************)
(* The body of send_and_receive between two .await points.                 *)
(***************************************************************************)
\* `retry_counter - 1` on an i32: at i32::MIN the subtraction overflows,
\* which panics in a build with overflow checks and wraps in one without.
Decrement(rc, checks) ==
    IF rc # I32_MIN THEN [panic |-> FALSE, value |-> rc - 1]
    ELSE IF checks THEN [panic |-> TRUE, value |-> rc]
    ELSE [panic |-> FALSE, value |-> I32_MAX]

\* The BusyRepeatRequest arm with the test of the counter before the
\* subtraction.
BusyArm_TestsBeforeDecrement(nrc, rc, checks) ==
    LET d == Decrement(rc, checks) IN
    IF rc = 0
    THEN [next |-> "done", result |-> Err(nrc), retry_counter |-> rc]
    ELSE IF d.panic
    THEN [next |-> "done", result |-> Panic("attempt to subtract with overflow"),
          retry_counter |-> rc]
    ELSE [next |-> "resend", result |-> NoResult, retry_counter |-> d.value]

\* The BusyRepeatRequest arm up to its send.
BusyArm(nrc, rc, checks) ==
    LET d == Decrement(rc, checks) IN
    IF d.panic
    THEN [next |-> "done", result |-> Panic("attempt to subtract with overflow"),
          retry_counter |-> rc]
    ELSE IF d.value = 0
    THEN [next |-> "done", result |-> Err(nrc), retry_counter |-> d.value]
    ELSE [next |-> "resend", result |-> NoResult, retry_counter |-> d.value]

\* WhileLet with a send added to the response-pending arm.
WhileLet_ResendOnPending(req, raw, rc, checks) ==
    LET parsed == parse_for_error(raw) IN
    IF parsed.kind = "Ok"
    THEN [next |-> "done", result |-> Ok(raw), retry_counter |-> rc]
    ELSE IF parsed.err.type # "NRC"
    THEN [next |-> "done", result |-> Err(parsed.err), retry_counter |-> rc]
    ELSE IF parsed.err.rejected_sid # req[1]
    THEN [next |-> "done",
          result |-> Err(SidMismatch(req[1], parsed.err.rejected_sid, raw)),
          retry_counter |-> rc]
    ELSE IF parsed.err.nrc = BusyRepeatRequest
    THEN BusyArm(parsed.err, rc, checks)
    ELSE IF parsed.err.nrc = RequestCorrectlyReceivedResponsePending
    THEN [next |-> "resend", result |-> NoResult, retry_counter |-> rc]
    ELSE [next |-> "done", result |-> Err(parsed.err), retry_counter |-> rc]

\* WhileLet with the match on the NRC before the test of rejected_sid.
WhileLet_RetryBeforeSidCheck(req, raw, rc, checks) ==
    LET parsed == parse_for_error(raw) IN
    IF parsed.kind = "Ok"
    THEN [next |-> "done", result |-> Ok(raw), retry_counter |-> rc]
    ELSE IF parsed.err.type # "NRC"
    THEN [next |-> "done", result |-> Err(parsed.err), retry_counter |-> rc]
    ELSE IF parsed.err.nrc = BusyRepeatRequest
    THEN BusyArm(parsed.err, rc, checks)
    ELSE IF parsed.err.nrc = RequestCorrectlyReceivedResponsePending
    THEN [next |-> "receive_pending", result |-> NoResult, retry_counter |-> rc]
    ELSE IF parsed.err.rejected_sid # req[1]
    THEN [next |-> "done",
          result |-> Err(SidMismatch(req[1], parsed.err.rejected_sid, raw)),
          retry_counter |-> rc]
    ELSE [next |-> "done", result |-> Err(parsed.err), retry_counter |-> rc]

\* WhileLet without the `_ => return Err(..)` arm: every NRC other than
\* response-pending takes the BusyRepeatRequest arm.
WhileLet_RetryOnEveryNrc(req, raw, rc, checks) ==
    LET parsed == parse_for_error(raw) IN
    IF parsed.kind = "Ok"
    THEN [next |-> "done", result |-> Ok(raw), retry_counter |-> rc]
    ELSE IF parsed.err.type # "NRC"
    THEN [next |-> "done", result |-> Err(parsed.err), retry_counter |-> rc]
    ELSE IF parsed.err.rejected_sid # req[1]
    THEN [next |-> "done",
          result |-> Err(SidMismatch(req[1], parsed.err.rejected_sid, raw)),
          retry_counter |-> rc]
    ELSE IF parsed.err.nrc = RequestCorrectlyReceivedResponsePending
    THEN [next |-> "receive_pending", result |-> NoResult, retry_counter |-> rc]
    ELSE BusyArm(parsed.err, rc, checks)

\* One evaluation of `while let Err(e) = parse_for_error(&raw_response)` and
\* of the loop body up to its next .await or return: where the call goes
\* next, what it returns if it returns, and the new retry_counter.
WhileLet(req, raw, rc, checks) ==
    LET parsed == parse_for_error(raw) IN
    IF parsed.kind = "Ok"
    THEN [next |-> "done", result |-> Ok(raw), retry_counter |-> rc]
    ELSE IF parsed.err.type # "NRC"
    THEN [next |-> "done", result |-> Err(parsed.err), retry_counter |-> rc]
    ELSE IF parsed.err.rejected_sid # req[1]
    THEN [next |-> "done",
          result |-> Err(SidMismatch(req[1], parsed.err.rejected_sid, raw)),
          retry_counter |-> rc]
    ELSE IF parsed.err.nrc = BusyRepeatRequest
    THEN BusyArm(parsed.err, rc, checks)
    ELSE IF parsed.err.nrc = RequestCorrectlyReceivedResponsePending
    THEN [next |-> "receive_pending", result |-> NoResult, retry_counter |-> rc]
    ELSE [next |-> "done", result |-> Err(parsed.err), retry_counter |-> rc]

\* `raw_response = self.socket.receive().await?; break;` and the
\* `Ok(raw_response)` after the loop: the response is returned as it is.
AfterPending(req, raw, rc, checks) ==
    [next |-> "done", result |-> Ok(raw), retry_counter |-> rc]

\* `socket.send(..).await?` and `socket.receive().await?` failing.
TransportFailed(e) == Err(CommunicationError(FromStdIoError(e)))

(***************************************************************************)
(* The steps of one call, for task t.  They say what happens to the locals *)
(* of the call; the actions of a specification add what the transport and  *)
(* the ECU do.                                                             *)
(***************************************************************************)
\* DoCall without the test of request.len().
DoCall_NoEmptyCheck(t, call) ==
    /\ pc[t] = "idle"
    /\ service' = [service EXCEPT ![t] = call]
    /\ request' = [request EXCEPT ![t] = call.request]
    /\ retry_counter' = [retry_counter EXCEPT ![t] = 0]
    /\ raw_response' = [raw_response EXCEPT ![t] = << >>]
    /\ trace' = [trace EXCEPT ![t] = << >>]
    /\ pc' = [pc EXCEPT ![t] = "send"]
    /\ result' = [result EXCEPT ![t] = NoResult]

\* A service method composes its request and calls send_and_receive, which
\* runs to its first .await: retry_counter = 0 and the RequestEmpty check.
DoCall(t, call) ==
    /\ pc[t] = "idle"
    /\ service' = [service EXCEPT ![t] = call]
    /\ request' = [request EXCEPT ![t] = call.request]
    /\ retry_counter' = [retry_counter EXCEPT ![t] = 0]
    /\ raw_response' = [raw_response EXCEPT ![t] = << >>]
    /\ trace' = [trace EXCEPT ![t] = << >>]
    /\ IF Len(call.request) = 0
       THEN /\ pc' = [pc EXCEPT ![t] = "done"]
            /\ result' = [result EXCEPT ![t] = Err(RequestEmpty)]
       ELSE /\ pc' = [pc EXCEPT ![t] = "send"]
            /\ result' = [result EXCEPT ![t] = NoResult]

\* `self.socket.send(&request).await?` completing: ok says whether the write
\* succeeded, to is the .await that follows it.
SocketSend(t, ok, to) ==
    /\ trace' = [trace EXCEPT ![t] = Append(@, Event("send", ok, request[t], pc[t]))]
    /\ IF ok
       THEN /\ pc' = [pc EXCEPT ![t] = to]
            /\ result' = result
       ELSE /\ pc' = [pc EXCEPT ![t] = "done"]
            /\ result' = [result EXCEPT ![t] = TransportFailed("io")]
    /\ UNCHANGED << service, request, raw_response, retry_counter >>

\* The send before the loop.
DoFirstSend(t, ok) ==
    /\ pc[t] = "send"
    /\ SocketSend(t, ok, "receive")

\* The send of the BusyRepeatRequest arm.
DoResend(t, ok) ==
    /\ pc[t] = "resend"
    /\ SocketSend(t, ok, "receive_busy")

\* DoReceiveFail with the failed receive tried again instead of `?`.
DoReceiveFail_Retries(t) ==
    /\ pc[t] \in {"receive", "receive_busy", "receive_pending"}
    /\ Len(trace[t]) < MaxTrace
    /\ trace' = [trace EXCEPT ![t] = Append(@, Event("recv", FALSE, << >>, pc[t]))]
    /\ UNCHANGED << pc, result, service, request, raw_response, retry_counter >>

\* A receive failing, at any of the three receives.
DoReceiveFail(t) ==
    /\ pc[t] \in {"receive", "receive_busy", "receive_pending"}
    /\ trace' = [trace EXCEPT ![t] = Append(@, Event("recv", FALSE, << >>, pc[t]))]
    /\ pc' = [pc EXCEPT ![t] = "done"]
    /\ result' = [result EXCEPT ![t] = TransportFailed("io")]
    /\ UNCHANGED << service, request, raw_response, retry_counter >>

\* What the code does with a message received at the .await `at`.
Decide(at, req, raw, rc, checks) ==
    IF at = "receive_pending" THEN AfterPending(req, raw, rc, checks)
    ELSE WhileLet(req, raw, rc, checks)

\* A receive delivering `data`: the receive before the loop, the one of the
\* BusyRepeatRequest arm or the one of the response-pending arm, and the code
\* that follows it up to the next .await or the return.
DoReceive(t, data) ==
    /\ pc[t] \in {"receive", "receive_busy", "receive_pending"}
    /\ LET d == Decide(pc[t], request[t], data, retry_counter[t], overflow_checks) IN
       /\ pc' = [pc EXCEPT ![t] = d.next]
       /\ result' = [result EXCEPT ![t] = d.result]
       /\ retry_counter' = [retry_counter EXCEPT ![t] = d.retry_counter]
    /\ raw_response' = [raw_response EXCEPT ![t] = data]
    /\ trace' = [trace EXCEPT ![t] = Append(@, Event("recv", TRUE, data, pc[t]))]
    /\ UNCHANGED << service, request >>

\* The service method has its result; the task is free to make its next call.
DoReturn(t) ==
    /\ pc[t] = "done"
    /\ pc' = [pc EXCEPT ![t] = "idle"]
    /\ service' = [service EXCEPT ![t] = NoCall]
    /\ request' = [request EXCEPT ![t] = << >>]
    /\ raw_response' = [raw_response EXCEPT ![t] = << >>]
    /\ retry_counter' = [retry_counter EXCEPT ![t] = 0]
    /\ result' = [result EXCEPT ![t] = NoResult]
    /\ trace' = [trace EXCEPT ![t] = << >>]

(***************************************************************************)
(* Spec: one task, any number of exchanges one after the other, over a     *)
(* transport that may fail at every operation and may deliver any message. *)
(***************************************************************************)
\* The messages a receive may deliver to a call with request req: empty,
\* positive, truncated negative, and negative responses with the request's
\* SID and with another one, for the retry codes, other codes and a byte
\* that is no code.
OtherSid(sid) == IF sid = ECU_RESET_SID THEN READ_DATA_BY_IDENTIFIER_SID ELSE ECU_RESET_SID

Messages(req) ==
    LET sid == req[1] IN
    { << >>,
      << sid + SEND_RECEIVE_SID_OFFSET >>,
      << sid + SEND_RECEIVE_SID_OFFSET, 1, 2 >>,
      << OtherSid(sid) + SEND_RECEIVE_SID_OFFSET, 1 >>,
      << NEGATIVE_RESPONSE_SID >>,
      << NEGATIVE_RESPONSE_SID, sid >>,
      << NEGATIVE_RESPONSE_SID, sid, BusyRepeatRequest >>,
      << NEGATIVE_RESPONSE_SID, sid, BusyRepeatRequest, 170 >>,
      << NEGATIVE_RESPONSE_SID, sid, RequestCorrectlyReceivedResponsePending >>,
      << NEGATIVE_RESPONSE_SID, sid, 34 >>,
      << NEGATIVE_RESPONSE_SID, sid, 0 >>,
      << NEGATIVE_RESPONSE_SID, sid, 255 >>,
      << NEGATIVE_RESPONSE_SID, OtherSid(sid), BusyRepeatRequest >>,
      << NEGATIVE_RESPONSE_SID, OtherSid(sid), RequestCorrectlyReceivedResponsePending >>,
      << NEGATIVE_RESPONSE_SID, OtherSid(sid), 49 >>,
      << NEGATIVE_RESPONSE_SID, OtherSid(sid), 255 >> }

\* The transport operations the call still makes after receiving `data` at
\* `at`, if every one of them ends it: the model delivers a message only
\* when the operations it leads to still fit in the trace.
Room(at, req, data, rc, checks) ==
    LET next == Decide(at, req, data, rc, checks).next IN
    IF next = "resend" THEN 2 ELSE IF next = "receive_pending" THEN 1 ELSE 0

Fits(t, data) ==
    Len(trace[t]) + 1 + Room(pc[t], request[t], data, retry_counter[t], overflow_checks)
        <= MaxTrace

Init ==
    /\ pc = [t \in Tasks |-> "idle"]
    /\ service = [t \in Tasks |-> NoCall]
    /\ request = [t \in Tasks |-> << >>]
    /\ raw_response = [t \in Tasks |-> << >>]
    /\ retry_counter = [t \in Tasks |-> 0]
    /\ result = [t \in Tasks |-> NoResult]
    /\ trace = [t \in Tasks |-> << >>]
    /\ skipped = [t \in Tasks |-> << >>]
    /\ calls = [t \in Tasks |-> 0]
    /\ wire = << >>
    /\ overflow_checks \in BOOLEAN

environment == << skipped, calls, wire, overflow_checks >>

Call ==
    /\ \E call \in ServiceCalls \cup DirectCalls : DoCall(1, call)
    /\ UNCHANGED environment

FirstSend ==
    /\ \E ok \in BOOLEAN : DoFirstSend(1, ok)
    /\ UNCHANGED environment

Resend ==
    /\ \E ok \in BOOLEAN : DoResend(1, ok)
    /\ UNCHANGED environment

Receive ==
    /\ pc[1] \in {"receive", "receive_busy", "receive_pending"}
    /\ \E data \in Messages(request[1]) : Fits(1, data) /\ DoReceive(1, data)
    /\ UNCHANGED environment

ReceiveFail ==
    /\ DoReceiveFail(1)
    /\ UNCHANGED environment

Return ==
    /\ DoReturn(1)
    /\ UNCHANGED environment

Next == Call \/ FirstSend \/ Resend \/ Receive \/ ReceiveFail \/ Return

Spec == Init /\ [][Next]_vars

(***************************************************************************)
(* SpecBusy: one task, a transport that never fails, and an ECU that       *)
(* answers every send with BusyRepeatRequest for the request's SID.        *)
(***************************************************************************)
BusyResponse(req) == << NEGATIVE_RESPONSE_SID, req[1], BusyRepeatRequest >>

\* The values of retry_counter a run of busy round trips is taken to in one
\* step: the last two before the subtraction overflows, and the last two
\* before the counter is 0.
CounterTargets == { I32_MIN + 1, I32_MIN, 2, 1 }

\* n round trips in one step, each a BusyRepeatRequest received at the
\* receive of the BusyRepeatRequest arm followed by the resend: n times
\* `retry_counter - 1` with no overflow and no result 0 on the way, so that
\* every one of the n passes through BusyArm resends.  The n round trips are
\* not written to the trace; their number is appended to `skipped`.
DoBusyRounds(t, n) ==
    /\ pc[t] = "receive_busy"
    /\ n >= 1
    /\ retry_counter[t] >= I32_MIN + n
    /\ retry_counter[t] < 0 \/ retry_counter[t] > n
    /\ retry_counter' = [retry_counter EXCEPT ![t] = @ - n]
    /\ raw_response' = [raw_response EXCEPT ![t] = BusyResponse(request[t])]
    /\ skipped' = [skipped EXCEPT ![t] = Append(@, n)]
    /\ UNCHANGED << pc, service, request, result, trace >>

BusyCall ==
    /\ \E call \in ServiceCalls : DoCall(1, call)
    /\ skipped' = [skipped EXCEPT ![1] = << >>]
    /\ UNCHANGED << calls, wire, overflow_checks >>

BusyFirstSend ==
    /\ DoFirstSend(1, TRUE)
    /\ UNCHANGED environment

BusyResend ==
    /\ DoResend(1, TRUE)
    /\ UNCHANGED environment

BusyReceive ==
    /\ pc[1] \in {"receive", "receive_busy"}
    /\ Fits(1, BusyResponse(request[1]))
    /\ DoReceive(1, BusyResponse(request[1]))
    /\ UNCHANGED environment

BusyRounds ==
    /\ pc[1] = "receive_busy"
    /\ \E target \in CounterTargets :
         /\ target < retry_counter[1]
         /\ (target < 0) = (retry_counter[1] < 0)
         /\ DoBusyRounds(1, retry_counter[1] - target)
    /\ UNCHANGED << calls, wire, overflow_checks >>

BusyReturn ==
    /\ DoReturn(1)
    /\ UNCHANGED environment

NextBusy ==
    BusyCall \/ BusyFirstSend \/ BusyResend \/ BusyReceive \/ BusyRounds \/ BusyReturn

SpecBusy == Init /\ [][NextBusy]_vars

(***************************************************************************)
(* The ECU of SpecEcu and SpecConc: it answers every request it is sent    *)
(* with k response-pending messages and one final response, which wait on  *)
(* the wire, in order, until a receive takes them.  Every message on the   *)
(* wire names the task and the call whose request it answers.              *)
(***************************************************************************)
PendingResponse(req) ==
    << NEGATIVE_RESPONSE_SID, req[1], RequestCorrectlyReceivedResponsePending >>

FinalResponses(req) ==
    { << req[1] + SEND_RECEIVE_SID_OFFSET, 1, 2 >>,
      << NEGATIVE_RESPONSE_SID, req[1], 34 >>,
      BusyResponse(req) }

OnWire(t, data) == [data |-> data, task |-> t, call |-> calls[t]]

EcuAnswer(t, k, final) ==
    [i \in 1 .. k |-> OnWire(t, PendingResponse(request[t]))]
    \o << OnWire(t, final) >>

\* The ECU asks for a resend only while the exchange it leads to fits in
\* the trace.
AnswerFits(t, k, final) ==
    final = BusyResponse(request[t]) => Len(trace[t]) + k + 4 <= MaxTrace

(***************************************************************************)
(* SpecEcu: one task making exchanges one after the other with that ECU,   *)
(* over a transport that never fails.                                      *)
(***************************************************************************)
EcuCall ==
    /\ calls[1] < MaxCalls
    /\ \E call \in ServiceCalls : DoCall(1, call)
    /\ calls' = [calls EXCEPT ![1] = @ + 1]
    /\ UNCHANGED << skipped, wire, overflow_checks >>

EcuFirstSend ==
    /\ DoFirstSend(1, TRUE)
    /\ \E k \in 0 .. MaxPending : \E final \in FinalResponses(request[1]) :
         /\ AnswerFits(1, k, final)
         /\ wire' = wire \o EcuAnswer(1, k, final)
    /\ UNCHANGED << skipped, calls, overflow_checks >>

EcuResend ==
    /\ DoResend(1, TRUE)
    /\ \E k \in 0 .. MaxPending : \E final \in FinalResponses(request[1]) :
         /\ AnswerFits(1, k, final)
         /\ wire' = wire \o EcuAnswer(1, k, final)
    /\ UNCHANGED << skipped, calls, overflow_checks >>

EcuReceive ==
    /\ wire # << >>
    /\ DoReceive(1, Head(wire).data)
    /\ wire' = Tail(wire)
    /\ UNCHANGED << skipped, calls, overflow_checks >>

EcuReturn ==
    /\ DoReturn(1)
    /\ UNCHANGED environment

NextEcu == EcuCall \/ EcuFirstSend \/ EcuResend \/ EcuReceive \/ EcuReturn

SpecEcu == Init /\ [][NextEcu]_vars

(***************************************************************************)
(* SpecConc: the tasks of one client call service methods concurrently     *)
(* (the methods take &self, and two of their futures can be polled in      *)
(* turn, as by join!).  The ECU answers every request with one positive    *)
(* response; the transport never fails.                                    *)
(***************************************************************************)
ConcCalls ==
    { c \in ServiceCalls : c.svc \in {"ecu_reset", "read_data_by_identifier"} }

PositiveResponse(req) == << req[1] + SEND_RECEIVE_SID_OFFSET, 1, 2 >>

ConcCall(t) ==
    /\ calls[t] < MaxCalls
    /\ \E call \in ConcCalls : DoCall(t, call)
    /\ calls' = [calls EXCEPT ![t] = @ + 1]
    /\ UNCHANGED << skipped, wire, overflow_checks >>

ConcFirstSend(t) ==
    /\ DoFirstSend(t, TRUE)
    /\ wire' = wire \o EcuAnswer(t, 0, PositiveResponse(request[t]))
    /\ UNCHANGED << skipped, calls, overflow_checks >>

ConcReceive(t) ==
    /\ wire # << >>
    /\ DoReceive(t, Head(wire).data)
    /\ wire' = Tail(wire)
    /\ UNCHANGED << skipped, calls, overflow_checks >>

ConcReturn(t) ==
    /\ DoReturn(t)
    /\ UNCHANGED environment

NextConc ==
    \E t \in Tasks : ConcCall(t) \/ ConcFirstSend(t) \/ ConcReceive(t) \/ ConcReturn(t)

SpecConc == Init /\ [][NextConc]_vars

(***************************************************************************)
(* What the claims speak of, read off the trace of task 1's exchange.      *)
(***************************************************************************)
Sid(t) == request[t][1]

\* A negative response [0x7F, sid, nrc, ...].
IsNegative(data, sid, nrc) ==
    /\ Len(data) >= 3
    /\ data[1] = NEGATIVE_RESPONSE_SID
    /\ data[2] = sid
    /\ data[3] = nrc

IsPendingFor(data, sid) == IsNegative(data, sid, RequestCorrectlyReceivedResponsePending)
IsBusyFor(data, sid) == IsNegative(data, sid, BusyRepeatRequest)
IsPositive(data) == Len(data) >= 1 /\ data[1] # NEGATIVE_RESPONSE_SID

Received(e) == e.op = "recv" /\ e.ok
\* Received by a receive whose result the loop decodes with parse_for_error.
Decoded(e) == Received(e) /\ e.at \in {"receive", "receive_busy"}

\* The trace is one send, then k >= 1 response-pending messages, then one
\* message that is not response-pending.
PendingsThenFinal(tr, sid) ==
    /\ Len(tr) >= 3
    /\ tr[1].op = "send" /\ tr[1].ok
    /\ \A i \in 2 .. Len(tr) : Received(tr[i])
    /\ \A i \in 2 .. Len(tr) - 1 : IsPendingFor(tr[i].data, sid)
    /\ ~ IsPendingFor(Last(tr).data, sid)

\* C1: every response-pending message for the request's SID makes the engine
\* receive again without sending, until a message arrives that is not
\* response-pending; after k >= 1 pending messages and a final response the
\* exchange has made k + 1 receives and its outcome is that of the final
\* response: Ok(final) for a positive one, NRC{sid, code} for a negative one
\* with the request's SID and a code other than the two retry codes.
C1_PendingLoopsUntilFinal ==
    /\ \A i \in 1 .. Len(trace[1]) :
         Received(trace[1][i]) /\ IsPendingFor(trace[1][i].data, Sid(1))
         => \/ i < Len(trace[1]) /\ Received(trace[1][i + 1])
            \/ i = Len(trace[1]) /\ pc[1] = "receive_pending"
    /\ pc[1] = "done" /\ PendingsThenFinal(trace[1], Sid(1))
       => LET final == Last(trace[1]).data IN
          /\ IsPositive(final) => result[1] = Ok(final)
          /\ \A code \in NegativeResponseCodes \ {BusyRepeatRequest} :
               IsNegative(final, Sid(1), code) => result[1] = Err(NRC(Sid(1), code))

\* C3: every send carries the bytes of the request; the first operation of
\* an exchange is a send, and every later send directly follows a received
\* BusyRepeatRequest for the request's SID.
C3_SendsOnlyFirstOrAfterBusy ==
    \A i \in 1 .. Len(trace[1]) :
      /\ i = 1 => trace[1][i].op = "send"
      /\ trace[1][i].op = "send"
         => /\ trace[1][i].data = request[1]
            /\ i > 1 => /\ Received(trace[1][i - 1])
                        /\ IsBusyFor(trace[1][i - 1].data, Sid(1))

C3_Witness ==
    /\ Len(trace[1]) >= 4
    /\ trace[1][3].op = "send" /\ trace[1][3].ok
    /\ Received(trace[1][4]) /\ IsPendingFor(trace[1][4].data, Sid(1))

\* C4: a decoded negative response with a recognized NRC whose rejected_sid
\* is not the request's SID ends the exchange with SidMismatch{expected:
\* request[0], received: rejected_sid, raw_message: the received bytes}; it is
\* the last operation of the exchange, whatever the NRC.
C4_SidCheckFirst ==
    \A i \in 1 .. Len(trace[1]) :
      LET e == trace[1][i] IN
      /\ Decoded(e)
      /\ Len(e.data) >= 3
      /\ e.data[1] = NEGATIVE_RESPONSE_SID
      /\ e.data[3] \in NegativeResponseCodes
      /\ e.data[2] # Sid(1)
      => /\ i = Len(trace[1])
         /\ pc[1] = "done"
         /\ result[1] = Err(SidMismatch(Sid(1), e.data[2], e.data))

C4_Witness ==
    /\ pc[1] = "done"
    /\ Len(trace[1]) = 4
    /\ Decoded(Last(trace[1]))
    /\ IsNegative(Last(trace[1]).data, OtherSid(Sid(1)), RequestCorrectlyReceivedResponsePending)
    /\ result[1].kind = "Err" /\ result[1].err.type = "SidMismatch"

\* C5: a decoded negative response with the request's SID and a recognized
\* NRC other than BusyRepeatRequest and RequestCorrectlyReceivedResponsePending
\* ends the exchange with NRC{rejected_sid, nrc} holding the decoded values;
\* it is the last operation of the exchange.
C5_OtherNrcIsTerminal ==
    \A i \in 1 .. Len(trace[1]) :
      LET e == trace[1][i] IN
      \A code \in NegativeResponseCodes \
                  {BusyRepeatRequest, RequestCorrectlyReceivedResponsePending} :
        Decoded(e) /\ IsNegative(e.data, Sid(1), code)
        => /\ i = Len(trace[1])
           /\ pc[1] = "done"
           /\ result[1] = Err(NRC(e.data[2], code))

C5_Witness ==
    /\ pc[1] = "done"
    /\ Len(trace[1]) = 4
    /\ Decoded(Last(trace[1]))
    /\ IsNegative(Last(trace[1]).data, Sid(1), 34)
    /\ result[1] = Err(NRC(Sid(1), 34))

\* C6: when the first response is not empty and does not start with 0x7F
\* the exchange is over after one send and one receive and returns the
\* received bytes as they are.
C6_PositiveFirstResponse ==
    /\ Len(trace[1]) >= 2
    /\ Received(trace[1][2])
    /\ IsPositive(trace[1][2].data)
    => /\ Len(trace[1]) = 2
       /\ trace[1][1].op = "send"
       /\ pc[1] = "done"
       /\ result[1] = Ok(trace[1][2].data)

C6_Witness ==
    /\ pc[1] = "done"
    /\ Len(trace[1]) = 2
    /\ Received(trace[1][2])
    /\ Len(trace[1][2].data) = 3
    /\ trace[1][2].data[1] = Sid(1) + SEND_RECEIVE_SID_OFFSET
    /\ result[1].kind = "Ok"

\* C9: a call with a zero-length request returns RequestEmpty without any
\* transport operation; the request of every service method is not empty
\* and starts with the SID of its service, and no service method returns
\* RequestEmpty.
C9_RequestEmpty ==
    /\ pc[1] # "idle" /\ Len(request[1]) = 0
       => /\ pc[1] = "done"
          /\ result[1] = Err(RequestEmpty)
          /\ trace[1] = << >>
    /\ pc[1] # "idle" /\ service[1].svc # "send_and_receive"
       => /\ Len(request[1]) >= 1
          /\ request[1][1] = service[1].sid
          /\ result[1] # Err(RequestEmpty)

C9_Witness ==
    /\ pc[1] = "done"
    /\ service[1].svc = "send_and_receive"
    /\ result[1] = Err(RequestEmpty)
    /\ trace[1] = << >>

\* C10: a send or a receive that fails is the last operation of the
\* exchange, which ends with CommunicationError wrapping the failure.
C10_TransportFailureIsFatal ==
    \A i \in 1 .. Len(trace[1]) :
      ~ trace[1][i].ok
      => /\ i = Len(trace[1])
         /\ pc[1] = "done"
         /\ result[1] = Err(CommunicationError("StdIOError"))

C10_Witness ==
    /\ pc[1] = "done"
    /\ Len(trace[1]) = 4
    /\ trace[1][4].op = "recv" /\ ~ trace[1][4].ok
    /\ trace[1][4].at = "receive_busy"

\* C2: against an ECU that answers every send with BusyRepeatRequest for
\* the request's SID, over a transport that never fails, the exchange makes a
\* bounded number of resends and then ends with the error NRC{request SID,
\* BusyRepeatRequest}: it ends in no other way.
C2_BusyRetryEndsWithNrc ==
    pc[1] = "done" => result[1] = Err(NRC(Sid(1), BusyRepeatRequest))

\* C7: while a call is between its first send and its return no other call
\* on the client performs a send or a receive, and a call never receives
\* the response to another call's request.
Between(t) == trace[t] # << >> /\ pc[t] \notin {"idle", "done"}

C7_ExclusiveTransport ==
    [][\A t \in Tasks :
         Len(trace'[t]) = Len(trace[t]) + 1
         => /\ \A u \in Tasks \ {t} : ~ Between(u)
            /\ Last(trace'[t]).op = "recv" => Head(wire).task = t]_vars

\* C8: with an ECU that answers each request with response-pending messages
\* and one final response, an exchange has returned only when no response to
\* its request is unread, and the first receive of an exchange obtains a
\* response to its own request.
C8_ResponsesConsumedBeforeReturn ==
    /\ pc[1] = "done"
       => \A i \in 1 .. Len(wire) : wire[i].call # calls[1]
    /\ pc[1] = "receive" /\ wire # << >>
       => Head(wire).call = calls[1]

(***************************************************************************)
(* SpecCodec: the pure functions, each applied once to an input drawn from *)
(* the sets above: parse_for_error to DecoderInputs, the parse of every    *)
(* service method to Responses of the call, convert_from_simple_to_normal  *)
(* to ConvertCalls.  Task 1 holds the call in `service`, the bytes in      *)
(* `raw_response` and what the function returned in `result`.              *)
(***************************************************************************)
\* convert_from_simple_to_normal takes no bytes: its input is its arguments.
Inputs(call) ==
    CASE call.svc = "parse_for_error" -> DecoderInputs
      [] call.svc = "convert_from_simple_to_normal" -> { << >> }
      [] OTHER -> Responses(call)

InitCodec ==
    /\ \E call \in MethodCalls \cup ConvertCalls \cup {DecoderCall} :
         /\ service = [t \in Tasks |-> IF t = 1 THEN call ELSE NoCall]
         /\ request = [t \in Tasks |-> IF t = 1 THEN call.request ELSE << >>]
         /\ \E raw \in Inputs(call) :
              raw_response = [t \in Tasks |-> IF t = 1 THEN raw ELSE << >>]
    /\ pc = [t \in Tasks |-> IF t = 1 THEN "parse" ELSE "idle"]
    /\ retry_counter = [t \in Tasks |-> 0]
    /\ result = [t \in Tasks |-> NoResult]
    /\ trace = [t \in Tasks |-> << >>]
    /\ skipped = [t \in Tasks |-> << >>]
    /\ calls = [t \in Tasks |-> 0]
    /\ wire = << >>
    /\ overflow_checks \in BOOLEAN

\* The function has returned (or panicked): its result is in `result`.
Returned(t, value) ==
    /\ pc[t] = "parse"
    /\ pc' = [pc EXCEPT ![t] = "parsed"]
    /\ result' = [result EXCEPT ![t] = value]
    /\ UNCHANGED << service, request, raw_response, retry_counter, trace >>

ApplyParseForError ==
    /\ service[1].svc = "parse_for_error"
    /\ Returned(1, parse_for_error(raw_response[1]))
    /\ UNCHANGED environment

ApplyServiceParse ==
    /\ service[1].svc \notin {"parse_for_error", "convert_from_simple_to_normal"}
    /\ Returned(1, ServiceParse(service[1], raw_response[1]))
    /\ UNCHANGED environment

ApplyConvert ==
    /\ service[1].svc = "convert_from_simple_to_normal"
    /\ Returned(1, convert_from_simple_to_normal(
                       service[1].args.memory_address, service[1].args.memory_size,
                       service[1].args.memory_address_len, service[1].args.memory_size_len))
    /\ UNCHANGED environment

NextCodec == ApplyParseForError \/ ApplyServiceParse \/ ApplyConvert

SpecCodec == InitCodec /\ [][NextCodec]_vars

(***************************************************************************)
(* What the claims about the pure functions speak of.                      *)
(***************************************************************************)
\* Task 1 has applied the function or the method svc.
Applied(svc) == pc[1] = "parsed" /\ service[1].svc = svc

\* C11: parse_for_error returns a result for every input, and which one
\* depends on the first three bytes only: Ok(()) when the first byte exists
\* and is not 0x7F; ResponseEmpty when the input is empty or starts with
\* 0x7F and has fewer than 3 bytes; for [0x7F, s, n, ...] NRC{s, n} when n
\* is a value of NegativeResponseCode and UnknownNRC{s, n} when it is not.
C11_ParseForErrorTotal ==
    Applied("parse_for_error")
    => LET raw == raw_response[1] IN
       /\ result[1].kind \in {"Ok", "Err"}
       /\ Len(raw) >= 1 /\ raw[1] # NEGATIVE_RESPONSE_SID
          => result[1] = [kind |-> "Ok"]
       /\ Len(raw) = 0 \/ (raw[1] = NEGATIVE_RESPONSE_SID /\ Len(raw) < 3)
          => result[1] = Err(ResponseEmpty)
       /\ Len(raw) >= 3 /\ raw[1] = NEGATIVE_RESPONSE_SID
          => /\ raw[3] \in NegativeResponseCodes
                => result[1] = Err(NRC(raw[2], raw[3]))
             /\ raw[3] \notin NegativeResponseCodes
                => result[1] = Err(UnknownNRC(raw[2], raw[3]))

C11_Witness ==
    /\ Applied("parse_for_error")
    /\ raw_response[1] = << NEGATIVE_RESPONSE_SID, 17, 255, 33 >>
    /\ result[1] = Err(UnknownNRC(17, 255))

(***************************************************************************)
(* SpecService: one task calling the service methods one after the other,  *)
(* each from its compose to the result of its parse, over a transport that *)
(* never fails.  The ECU answers with any response of Responses, directly  *)
(* or after one response-pending message; it never asks for a resend.      *)
(***************************************************************************)
\* The method has the result of the exchange: `?` returns its error, the
\* parse function of the module is applied to its bytes.
DoParse(t) ==
    /\ pc[t] = "done"
    /\ pc' = [pc EXCEPT ![t] = "parsed"]
    /\ result' = [result EXCEPT ![t] = ServiceResult(service[t], result[t])]
    /\ UNCHANGED << service, request, raw_response, retry_counter, trace >>

\* The method has returned; the task is free to make its next call.
DoMethodReturn(t) ==
    /\ pc[t] = "parsed"
    /\ pc' = [pc EXCEPT ![t] = "idle"]
    /\ service' = [service EXCEPT ![t] = NoCall]
    /\ request' = [request EXCEPT ![t] = << >>]
    /\ raw_response' = [raw_response EXCEPT ![t] = << >>]
    /\ retry_counter' = [retry_counter EXCEPT ![t] = 0]
    /\ result' = [result EXCEPT ![t] = NoResult]
    /\ trace' = [trace EXCEPT ![t] = << >>]

ServiceMessages(call) == Responses(call) \cup { PendingResponse(call.request) }

SvcCall ==
    /\ \E call \in MethodCalls : DoCall(1, call)
    /\ UNCHANGED environment

SvcFirstSend ==
    /\ DoFirstSend(1, TRUE)
    /\ UNCHANGED environment

SvcReceive ==
    /\ pc[1] \in {"receive", "receive_pending"}
    /\ \E data \in ServiceMessages(service[1]) :
         /\ Room(pc[1], request[1], data, retry_counter[1], overflow_checks) < 2
         /\ DoReceive(1, data)
    /\ UNCHANGED environment

SvcParse ==
    /\ DoParse(1)
    /\ UNCHANGED environment

SvcReturn ==
    /\ DoMethodReturn(1)
    /\ UNCHANGED environment

NextService == SvcCall \/ SvcFirstSend \/ SvcReceive \/ SvcParse \/ SvcReturn

SpecService == Init /\ [][NextService]_vars

(***************************************************************************)
(* What the claims about the service methods speak of.                     *)
(***************************************************************************)
\* The response SID the method of task t expects.
ExpectedSid(t) == service[t].sid + SEND_RECEIVE_SID_OFFSET

\* The last message task t received is the one its exchange ended with.
FinalResponse(t) ==
    /\ trace[t] # << >>
    /\ Received(Last(trace[t]))
    /\ raw_response[t] = Last(trace[t]).data

\* The exchange of task t handed its last message to the parse function:
\* the message was not decoded as a negative response.
HandedToParse(t) ==
    /\ FinalResponse(t)
    /\ Last(trace[t]).at = "receive_pending" \/ IsPositive(raw_response[t])

\* C12: the parse function of every service method, given a non-empty
\* response whose first byte b is not the method's SID + 0x40, returns
\* SidMismatch{SID + 0x40, b, the whole response}; and a final response
\* whose first byte is neither SID + 0x40 nor 0x7F makes the service method
\* return that SidMismatch.
C12_SidMismatch ==
    pc[1] = "parsed" /\ FinalResponse(1) /\ raw_response[1] # << >>
    => LET raw == raw_response[1]
           mismatch == Err(SidMismatch(ExpectedSid(1), raw[1], raw))
       IN
       /\ HandedToParse(1) /\ raw[1] # ExpectedSid(1) => result[1] = mismatch
       /\ raw[1] \notin {ExpectedSid(1), NEGATIVE_RESPONSE_SID} => result[1] = mismatch

C12_Witness ==
    /\ pc[1] = "parsed"
    /\ service[1].svc = "read_data_by_identifier_tuple"
    /\ Len(trace[1]) = 3
    /\ raw_response[1] = << NEGATIVE_RESPONSE_SID, 1, 10 >>
    /\ result[1] = Err(SidMismatch(98, NEGATIVE_RESPONSE_SID, raw_response[1]))

\* Task 1 has applied the parse function of a service method.
AppliedParse ==
    /\ pc[1] = "parsed"
    /\ service[1].svc \notin {"parse_for_error", "convert_from_simple_to_normal"}

\* C13: every parse function of every service module, given the empty
\* response, returns the error ResponseEmpty: no success, no other error,
\* no panic.
C13_EmptyResponse ==
    AppliedParse /\ raw_response[1] = << >> => result[1] = Err(ResponseEmpty)

\* The pairs of a tuple parse: the arguments of
\* read_data_by_identifier_tuple, or the one pair (d, u32::MAX) for
\* read_data_by_identifier with the one identifier d.  The response is read
\* as a sequence of records of the lengths asked for: record i starts (with
\* its identifier) at RecordStart(pairs, i).  Lengths are taken as their
\* low half, which they equal when ShortLengths holds.
TuplePairsOf(t) ==
    IF service[t].svc = "read_data_by_identifier_tuple"
    THEN service[t].args.data_identifiers_and_lengths
    ELSE << << service[t].args.data_identifiers[1], U32_MAX >> >>

AppliedTupleParse ==
    /\ pc[1] = "parsed"
    /\ \/ service[1].svc = "read_data_by_identifier_tuple"
       \/ /\ service[1].svc = "read_data_by_identifier"
          /\ Len(service[1].args.data_identifiers) = 1

RECURSIVE RecordStart(_, _)
RecordStart(pairs, i) ==
    IF i = 1 THEN 2 ELSE RecordStart(pairs, i - 1) + 2 + pairs[i - 1][2][2]

\* The first k lengths are finite and below 65536.
ShortLengths(pairs, k) == \A i \in 1 .. k : pairs[i][2] # U32_MAX /\ pairs[i][2][1] = 0

\* The response holds the identifier of record i, and it is the requested one.
HasIdentifier(pairs, raw, i) ==
    /\ Len(raw) >= RecordStart(pairs, i) + 1
    /\ raw[RecordStart(pairs, i)] = pairs[i][1] \div 256
    /\ raw[RecordStart(pairs, i) + 1] = pairs[i][1] % 256

IdentifierAt(pairs, raw, i) ==
    raw[RecordStart(pairs, i)] * 256 + raw[RecordStart(pairs, i) + 1]

DataAt(pairs, raw, i) ==
    SubSeq(raw, RecordStart(pairs, i) + 2, RecordStart(pairs, i) + 1 + pairs[i][2][2])

\* C14: the tuple parse, given pairs (d1,l1)..(dn,ln) with finite lengths
\* and the response [0x62] followed for each i in order by di, big-endian,
\* and li data bytes, returns Parsed with exactly n records in the order of
\* the pairs, record i being di with those li bytes (none when li is 0).
C14_TupleParse ==
    AppliedTupleParse
    => LET pairs == TuplePairsOf(1)
           raw == raw_response[1]
           n == Len(pairs)
       IN
       ( /\ ShortLengths(pairs, n)
         /\ Len(raw) = RecordStart(pairs, n + 1) - 1
         /\ raw[1] = READ_DATA_BY_IDENTIFIER_SID + SEND_RECEIVE_SID_OFFSET
         /\ \A i \in 1 .. n : HasIdentifier(pairs, raw, i) )
       => /\ result[1].kind = "Ok"
          /\ result[1].data.response = "ReadDataByIdentifier"
          /\ result[1].data.data.format = "Parsed"
          /\ LET records == result[1].data.data.value.data_records IN
             /\ Len(records) = n
             /\ \A i \in 1 .. n :
                  /\ records[i].data_identifier = pairs[i][1]
                  /\ records[i].data = DataAt(pairs, raw, i)
                  /\ Len(records[i].data) = pairs[i][2][2]

C14_Witness ==
    /\ AppliedTupleParse
    /\ TuplePairsOf(1) = << << 61840, U32(0) >>, << 258, U32(1) >> >>
    /\ raw_response[1] = << 98, 241, 144, 1, 2, 7 >>
    /\ result[1].kind = "Ok"
    /\ result[1].data.data.value.data_records
         = << DataRecord(61840, << >>), DataRecord(258, << 7 >>) >>

\* C15: in the tuple parse, when the identifiers read at positions 1..i-1
\* are the requested ones and the identifier read at position i is not, the
\* result is DidMismatch{expected: the i-th requested identifier, received:
\* the identifier read, raw_message: the whole response}, and no records.
C15_DidMismatch ==
    AppliedTupleParse
    => LET pairs == TuplePairsOf(1)
           raw == raw_response[1]
       IN
       \A i \in 1 .. Len(pairs) :
         ( /\ Len(raw) >= 1
           /\ raw[1] = READ_DATA_BY_IDENTIFIER_SID + SEND_RECEIVE_SID_OFFSET
           /\ ShortLengths(pairs, i - 1)
           /\ \A j \in 1 .. i - 1 : HasIdentifier(pairs, raw, j)
           /\ Len(raw) >= RecordStart(pairs, i) + 1
           /\ IdentifierAt(pairs, raw, i) # pairs[i][1] )
         => result[1] = Err(DidMismatch(pairs[i][1], IdentifierAt(pairs, raw, i), raw))

C15_Witness ==
    /\ AppliedTupleParse
    /\ TuplePairsOf(1) = << << 10, U32(1) >>, << 20, U32(2) >> >>
    /\ raw_response[1] = << 98, 0, 10, 7, 0, 21, 0, 7 >>
    /\ result[1] = Err(DidMismatch(20, 21, raw_response[1]))

\* C16: in single-identifier mode (the one pair (d, u32::MAX)) a response
\* [0x62, d_hi, d_lo] followed by m >= 0 bytes parses to Parsed with the one
\* record of identifier d whose data is those m bytes in order; and
\* read_data_by_identifier called with exactly one identifier parses its
\* response in this mode.
C16_SingleIdentifier ==
    AppliedTupleParse /\ Len(TuplePairsOf(1)) = 1 /\ TuplePairsOf(1)[1][2] = U32_MAX
    => LET d == TuplePairsOf(1)[1][1]
           raw == raw_response[1]
       IN
       ( /\ Len(raw) >= 3
         /\ raw[1] = READ_DATA_BY_IDENTIFIER_SID + SEND_RECEIVE_SID_OFFSET
         /\ raw[2] = d \div 256
         /\ raw[3] = d % 256 )
       => /\ result[1].kind = "Ok"
          /\ result[1].data.response = "ReadDataByIdentifier"
          /\ result[1].data.data.format = "Parsed"
          /\ LET records == result[1].data.data.value.data_records IN
             /\ Len(records) = 1
             /\ records[1].data_identifier = d
             /\ Len(records[1].data) = Len(raw) - 3
             /\ \A k \in 1 .. Len(raw) - 3 : records[1].data[k] = raw[k + 3]

C16_Witness ==
    /\ Applied("read_data_by_identifier")
    /\ service[1].args.data_identifiers = << 61840 >>
    /\ raw_response[1] = << 98, 241, 144, 0, 7 >>
    /\ result[1].kind = "Ok"
    /\ result[1].data.data.value.data_records = << DataRecord(61840, << 0, 7 >>) >>

\* C17: read_data_by_identifier called with a number of identifiers other
\* than one does not split the response: for every response whose first
\* byte is 0x62 the result is ReadDataByIdentifier(Raw(bytes)), bytes being
\* the response without its first byte, every later byte kept in place.
C17_RawForSeveralIdentifiers ==
    Applied("read_data_by_identifier") /\ Len(service[1].args.data_identifiers) # 1
    => LET raw == raw_response[1] IN
       ( /\ Len(raw) >= 1
         /\ raw[1] = READ_DATA_BY_IDENTIFIER_SID + SEND_RECEIVE_SID_OFFSET )
       => /\ result[1].kind = "Ok"
          /\ result[1].data.response = "ReadDataByIdentifier"
          /\ result[1].data.data.format = "Raw"
          /\ LET bytes == result[1].data.data.value IN
             /\ Len(bytes) = Len(raw) - 1
             /\ \A k \in 1 .. Len(bytes) : bytes[k] = raw[k + 1]

C17_Witness ==
    /\ Applied("read_data_by_identifier")
    /\ service[1].args.data_identifiers = << 10, 20 >>
    /\ raw_response[1] = << 98, 0, 10, 0, 20, 7 >>
    /\ result[1] = Ok(UdsResponse("ReadDataByIdentifier", Raw(<< 0, 10, 0, 20, 7 >>)))

\* A response that has the right SID and breaks off inside a mandatory
\* field, every byte it has being a valid one, for the parse functions with
\* mandatory fields after the SID.
TruncatedEcuReset(raw) ==
    \/ Len(raw) = 1
    \/ Len(raw) = 2 /\ raw[2] = EnableRapidPowerShutDown

TruncatedWrite(raw) == Len(raw) \in {1, 2}

TruncatedCount(raw) ==
    /\ Len(raw) \in 1 .. 5
    /\ Len(raw) >= 2 => raw[2] \in SubFunctions
    /\ Len(raw) >= 4 => raw[4] \in DTCFormats

TruncatedList(raw) ==
    /\ \/ Len(raw) \in {1, 2}
       \/ Len(raw) > 3 /\ (Len(raw) - 3) % 4 # 0
    /\ Len(raw) >= 2 => raw[2] \in SubFunctions

\* Record i is the one cut short: the records before it are complete and
\* have the requested identifiers, and either its identifier is incomplete
\* or its identifier is the requested one and its data, of finite length,
\* is incomplete.
TruncatedTuple(pairs, raw) ==
    \E i \in 1 .. Len(pairs) :
      /\ ShortLengths(pairs, i - 1)
      /\ \A j \in 1 .. i - 1 : HasIdentifier(pairs, raw, j)
      /\ Len(raw) >= RecordStart(pairs, i) - 1
      /\ \/ Len(raw) < RecordStart(pairs, i) + 1
         \/ /\ HasIdentifier(pairs, raw, i)
            /\ pairs[i][2] # U32_MAX
            /\ \/ pairs[i][2][1] # 0
               \/ Len(raw) < RecordStart(pairs, i) + 1 + pairs[i][2][2]

Truncated(t) ==
    LET raw == raw_response[t]
        svc == service[t].svc
    IN
    /\ Len(raw) >= 1
    /\ raw[1] = ExpectedSid(t)
    /\ \/ svc = "ecu_reset" /\ TruncatedEcuReset(raw)
       \/ svc = "write_data_by_identifier" /\ TruncatedWrite(raw)
       \/ svc = "report_number_of_dtc_by_status_mask" /\ TruncatedCount(raw)
       \/ /\ svc \in {"report_dtc_by_status_mask", "report_most_recent_confirmed_dtc"}
          /\ TruncatedList(raw)
       \/ /\ \/ svc = "read_data_by_identifier_tuple"
             \/ svc = "read_data_by_identifier" /\ Len(service[t].args.data_identifiers) = 1
          /\ TruncatedTuple(TuplePairsOf(t), raw)

\* C18: the tuple parse and the parse functions of WriteDataByIdentifier,
\* EcuReset and the count and list reports of ReadDTCInformation, given a
\* response with the right SID and valid bytes that ends before its last
\* mandatory field is complete, return InvalidLength{the whole response}.
C18_InvalidLength ==
    AppliedParse /\ Truncated(1) => result[1] = Err(InvalidLength(raw_response[1]))

C18_Witness ==
    /\ AppliedParse
    /\ service[1].svc = "report_dtc_by_status_mask"
    /\ raw_response[1] = << 89, 2, 8, 18, 52, 86 >>
    /\ result[1] = Err(InvalidLength(raw_response[1]))

\* The least number of bytes, of 1 to 8, that hold a u64 given as its eight
\* big-endian bytes: all the bytes before the last `width` ones are 0.
FitsIn(value, width) == \A i \in 1 .. U64_BYTES - width : value[i] = 0

MinimalWidth(value) ==
    CHOOSE width \in 1 .. U64_BYTES :
      /\ FitsIn(value, width)
      /\ \A smaller \in 1 .. width - 1 : ~ FitsIn(value, smaller)

\* The big-endian representation of the value in exactly `width` bytes.
BigEndian(value, width) == [i \in 1 .. width |-> value[U64_BYTES - width + i]]

\* C19: convert_from_simple_to_normal with no explicit widths returns, for
\* every memory_address and memory_size, the format id size_width * 16 +
\* address_width, each width the minimal number of bytes that holds the
\* value, then memory_address big-endian in exactly address_width bytes and
\* memory_size big-endian in exactly size_width bytes.
C19_MinimalWidths ==
    Applied("convert_from_simple_to_normal")
    /\ service[1].args.memory_address_len = None
    /\ service[1].args.memory_size_len = None
    => LET memory_address == service[1].args.memory_address
           memory_size == service[1].args.memory_size
           address_width == MinimalWidth(memory_address)
           size_width == MinimalWidth(memory_size)
       IN result[1] = Ok(<< size_width * 16 + address_width,
                            BigEndian(memory_address, address_width),
                            BigEndian(memory_size, size_width) >>)

\* C20: whenever convert_from_simple_to_normal succeeds, both nibbles of
\* the format id are in 1..8, the low nibble is the number of address bytes
\* returned and the high nibble the number of size bytes returned.
C20_FormatIdNibbles ==
    Applied("convert_from_simple_to_normal") /\ result[1].kind = "Ok"
    => LET format_id == result[1].data[1]
           low == format_id % 16
           high == format_id \div 16
       IN
       /\ low \in 1 .. 8
       /\ high \in 1 .. 8
       /\ low = Len(result[1].data[2])
       /\ high = Len(result[1].data[3])

\* The explicit width of a field after the clamp to 8.
Clamped(provided_len) == IF provided_len[1] > 8 THEN 8 ELSE provided_len[1]

\* An explicit width that cannot hold the value of its field.
TooNarrow(provided_len, value) ==
    provided_len # None /\ Clamped(provided_len) < MinimalWidth(value)

\* The field of an explicit width: exactly the clamped width, zero-padded on
\* the left, the value unchanged, and the nibble of the format id the width.
ExplicitField(provided_len, value, field, nibble) ==
    provided_len # None
    => /\ Len(field) = Clamped(provided_len)
       /\ field = BigEndian(value, Clamped(provided_len))
       /\ U64(field) = value
       /\ nibble = Clamped(provided_len)

\* C21: an explicit width for the address or for the size is clamped to 8;
\* when the clamped width is smaller than the minimal width of the value
\* convert_from_simple_to_normal fails with InvalidArgument; otherwise the
\* field has exactly the clamped width, zero-padded on the left with its
\* value unchanged, and its nibble of the format id is the clamped width.
C21_ExplicitWidths ==
    LET a == service[1].args IN
    Applied("convert_from_simple_to_normal")
    /\ (a.memory_address_len # None \/ a.memory_size_len # None)
    => IF \/ TooNarrow(a.memory_address_len, a.memory_address)
          \/ TooNarrow(a.memory_size_len, a.memory_size)
       THEN result[1] = Err(InvalidArgument)
       ELSE /\ result[1].kind = "Ok"
            /\ ExplicitField(a.memory_address_len, a.memory_address,
                             result[1].data[2], result[1].data[1] % 16)
            /\ ExplicitField(a.memory_size_len, a.memory_size,
                             result[1].data[3], result[1].data[1] \div 16)

(***************************************************************************)
(* What the claims about ReadDTCInformation speak of.                      *)
(***************************************************************************)
\* Task 1 has applied parse_report_dtcs, the parse function of the methods
\* whose response is a list report.
AppliedListParse ==
    /\ pc[1] = "parsed"
    /\ service[1].svc \in {"report_dtc_by_status_mask", "report_most_recent_confirmed_dtc"}

\* The sub-functions 0x02, 0x0A-0x0F, 0x13 and 0x15.
ListReports == {2} \cup (10 .. 15) \cup {19, 21}

\* Record i of a list report: bytes 4i .. 4i + 3 of the response.
WireRecord(raw, i) ==
    [dtc |-> raw[4 * i] * 65536 + raw[4 * i + 1] * 256 + raw[4 * i + 2],
     status_of_dtc |-> raw[4 * i + 3]]

\* C22: parse_report_dtcs applied to [0x59, sf, mask] and n >= 0 complete
\* 4-byte records, sf a list-report sub-function, returns Parsed with
\* dtc_status_availability_mask = mask and exactly the n records in wire
\* order, each dtc the three record bytes big-endian (below 2^24) and
\* status_of_dtc the fourth byte; bytes after the mask that are no multiple
\* of 4 give InvalidLength.
C22_ListReport ==
    LET raw == raw_response[1] IN
    AppliedListParse /\ Len(raw) >= 3 /\ raw[1] = 89 /\ raw[2] \in ListReports
    => IF (Len(raw) - 3) % 4 = 0
       THEN LET n == (Len(raw) - 3) \div 4
                records == [i \in 1 .. n |-> WireRecord(raw, i)]
            IN
            /\ result[1] = Ok(UdsResponse("ReadDTCInformation",
                                 Parsed(ReadDTCInformationResponse(
                                            raw[2], ReportDTCsResponse(raw[3], records)))))
            /\ \A i \in 1 .. n : records[i].dtc < 16777216
       ELSE result[1] = Err(InvalidLength(raw))

C22_Witness ==
    /\ AppliedListParse
    /\ raw_response[1] = << 89, 2, 8, 18, 52, 86, 9, 255, 0, 1, 47 >>
    /\ result[1] = Ok(UdsResponse("ReadDTCInformation",
                         Parsed(ReadDTCInformationResponse(
                                    2, ReportDTCsResponse(
                                           8, << DTCAndStatusRecord(1193046, 9),
                                                 DTCAndStatusRecord(16711681, 47) >>)))))

\* The sub-functions 0x01, 0x07, 0x11 and 0x12.
CountReports == {1, 7, 17, 18}

\* C23: parse_report_number_of_dtc_by_status_mask_response applied to
\* [0x59, sf, mask, fmt, hi, lo], sf a count-report sub-function, returns
\* Parsed with dtc_status_availability_mask = mask, the DTC format of value
\* fmt and dtc_count = 256 * hi + lo when fmt is one of 0..4, and
\* ResponseIncorrect with the full input when fmt is no DTC format.
C23_CountReport ==
    LET raw == raw_response[1] IN
    Applied("report_number_of_dtc_by_status_mask")
    /\ Len(raw) = 6 /\ raw[1] = 89 /\ raw[2] \in CountReports
    => IF raw[4] \in 0 .. 4
       THEN result[1] = Ok(UdsResponse("ReadDTCInformation",
                               Parsed(ReadDTCInformationResponse(
                                          raw[2],
                                          ReportNumberOfDTCByMaskResponse(
                                              raw[3], raw[4], 256 * raw[5] + raw[6])))))
       ELSE result[1] = Err(ResponseIncorrect(raw))

C23_Witness ==
    /\ Applied("report_number_of_dtc_by_status_mask")
    /\ raw_response[1] = << 89, 18, 24, 4, 16, 15 >>
    /\ result[1] = Ok(UdsResponse("ReadDTCInformation",
                         Parsed(ReadDTCInformationResponse(
                                    18, ReportNumberOfDTCByMaskResponse(24, 4, 4111)))))

\* Task 1 has applied a parse function of read_dtc_information.rs.
AppliedDtcParse ==
    /\ pc[1] = "parsed"
    /\ service[1].sid = READ_DTC_INFORMATION_SID

\* The response-shape group of the parse function a method applies: the
\* sub-functions it builds a typed variant for.  The parse functions of the
\* snapshot and extended-data reports return Raw and build none.
GroupOf(svc) ==
    CASE svc = "report_number_of_dtc_by_status_mask" -> CountReports
      [] svc \in {"report_dtc_by_status_mask", "report_most_recent_confirmed_dtc"} ->
           ListReports
      [] OTHER -> {}

\* A response that lacks nothing but, perhaps, a sub-function of the group.
CompleteReport(svc, raw) ==
    /\ Len(raw) >= 3 /\ raw[1] = 89
    /\ CASE svc = "report_number_of_dtc_by_status_mask" ->
              Len(raw) = 6 /\ raw[4] \in 0 .. 4
         [] svc \in {"report_dtc_by_status_mask", "report_most_recent_confirmed_dtc"} ->
              (Len(raw) - 3) % 4 = 0
         [] OTHER -> FALSE

EchoesWrite(call, raw) == raw = << 110 >> \o SubSeq(call.request, 2, 3)

EchoesEcuReset(call, raw) ==
    /\ Len(raw) = (IF call.args.reset_type = EnableRapidPowerShutDown THEN 3 ELSE 2)
    /\ raw[1] = 81
    /\ raw[2] = call.request[2]

\* Record i of the response starts with the bytes of identifier i of the
\* request.
EchoesIdentifiers(call, pairs, raw) ==
    /\ Len(raw) >= 1 /\ raw[1] = 98
    /\ IF Len(pairs) = 1 /\ pairs[1][2] = U32_MAX
       THEN Len(raw) >= 3 /\ SubSeq(raw, 2, 3) = SubSeq(call.request, 2, 3)
       ELSE /\ ShortLengths(pairs, Len(pairs))
            /\ Len(raw) = RecordStart(pairs, Len(pairs) + 1) - 1
            /\ \A i \in 1 .. Len(pairs) :
                 /\ raw[RecordStart(pairs, i)] = call.request[2 * i]
                 /\ raw[RecordStart(pairs, i) + 1] = call.request[2 * i + 1]

\* C25: parse gives back the identifying arguments of compose.  The DID
\* parsed from [0x6E] and bytes 1..2 of the WriteDataByIdentifier request
\* is the requested DID; [0x51, byte 1 of the EcuReset request], with one
\* power_down_time byte exactly for EnableRapidPowerShutDown, parses to the
\* requested reset type with power_down_time present exactly then; the DIDs
\* parsed from a ReadDataByIdentifier response built from the DID bytes of
\* the request are the requested DIDs in their order.
C25_ComposeParseRoundTrip ==
    LET call == service[1]
        raw == raw_response[1]
    IN
    /\ Applied("write_data_by_identifier") /\ EchoesWrite(call, raw)
       => result[1] = Ok(UdsResponse("WriteDataByIdentifier",
                            Parsed(WriteDataByIdentifierResponse(call.args.data_identifier))))
    /\ Applied("ecu_reset") /\ EchoesEcuReset(call, raw)
       => result[1] = Ok(UdsResponse("EcuReset",
                            Parsed(EcuResetResponse(
                                       call.args.reset_type,
                                       IF call.args.reset_type = EnableRapidPowerShutDown
                                       THEN Some(raw[3]) ELSE None))))
    /\ AppliedTupleParse /\ EchoesIdentifiers(call, TuplePairsOf(1), raw)
       => /\ result[1].kind = "Ok"
          /\ result[1].data.data.format = "Parsed"
          /\ LET records == result[1].data.data.value.data_records IN
             /\ Len(records) = Len(TuplePairsOf(1))
             /\ \A i \in 1 .. Len(records) :
                  records[i].data_identifier = TuplePairsOf(1)[i][1]

C25_Witness ==
    /\ Applied("write_data_by_identifier")
    /\ service[1].args.data_identifier = 61840
    /\ raw_response[1] = << 110, 241, 144 >>
    /\ result[1] = Ok(UdsResponse("WriteDataByIdentifier",
                         Parsed(WriteDataByIdentifierResponse(61840))))

(***************************************************************************)
(* What the claims about the retry counter and the outcome of an exchange  *)
(* speak of.                                                               *)
(***************************************************************************)
\* a + b, or -1 when the sum is 2^31 or more (-1 stands for such a number).
AddBelow(a, b) ==
    IF a = -1 \/ b = -1 THEN -1
    ELSE IF a > I32_MAX - b THEN -1
    ELSE a + b

RECURSIVE SumBelow(_)
SumBelow(ns) == IF ns = << >> THEN 0 ELSE AddBelow(Head(ns), SumBelow(Tail(ns)))

\* The BusyRepeatRequest responses for the request's SID the exchange of
\* task t has received: those of the trace and those of the round trips
\* taken in one step; -1 when they are 2^31 or more.
BusyResponses(t) ==
    AddBelow(Cardinality({ i \in DOMAIN trace[t] :
                             Received(trace[t][i]) /\ IsBusyFor(trace[t][i].data, Sid(t)) }),
             SumBelow(skipped[t]))

\* C26: retry_counter starts at 0 and is decremented before the test
\* `retry_counter == 0`, so after n < 2^31 consecutive BusyRepeatRequest
\* responses for the request's SID the counter is -n: negative after every
\* decrement, the test never true; the engine resends after every one of
\* them and does not return NRC{BusyRepeatRequest}.
C26_RetryCounterNeverExhausted ==
    LET n == BusyResponses(1) IN
    pc[1] # "idle" /\ n # -1
    => /\ retry_counter[1] = 0 - n
       /\ n >= 1 => retry_counter[1] < 0
       /\ pc[1] # "done"
       /\ result[1] = NoResult
       /\ \A i \in DOMAIN trace[1] :
            Received(trace[1][i])
            => IF i < Len(trace[1])
               THEN trace[1][i + 1].op = "send" /\ trace[1][i + 1].data = request[1]
               ELSE pc[1] = "resend"

C26_Witness ==
    /\ pc[1] = "receive_busy"
    /\ BusyResponses(1) = I32_MAX
    /\ retry_counter[1] = I32_MIN + 1
    /\ \E i \in DOMAIN trace[1] : Received(trace[1][i])

\* C27: whenever send_and_receive returns Ok(bytes) the bytes are not empty
\* and their first byte is not 0x7F, and a final negative response for the
\* request's SID with a code of NegativeResponseCode other than the two
\* retry codes is returned as the error NRC{..}, also when it follows a
\* response-pending message.
C27_OkIsPositiveResponse ==
    pc[1] = "done"
    => /\ result[1].kind = "Ok"
          => /\ Len(result[1].data) >= 1
             /\ result[1].data[1] # NEGATIVE_RESPONSE_SID
       /\ \A nrc \in NegativeResponseCodes
                      \ {BusyRepeatRequest, RequestCorrectlyReceivedResponsePending} :
            ( /\ trace[1] # << >>
              /\ Received(Last(trace[1]))
              /\ IsNegative(Last(trace[1]).data, Sid(1), nrc) )
            => result[1] = Err(NRC(Sid(1), nrc))

(***************************************************************************)
(* SpecLive: one task, any number of exchanges one after the other, over a *)
(* transport that never fails and delivers a message to every receive.     *)
(* The ECU answers with any message of Messages, with retry codes only as  *)
(* long as the trace has room, and with long runs of BusyRepeatRequest     *)
(* taken in one step.  The task is polled until its call returns.          *)
(***************************************************************************)
LiveCall ==
    /\ \E call \in ServiceCalls : DoCall(1, call)
    /\ skipped' = [skipped EXCEPT ![1] = << >>]
    /\ UNCHANGED << calls, wire, overflow_checks >>

LiveFirstSend ==
    /\ DoFirstSend(1, TRUE)
    /\ UNCHANGED environment

LiveResend ==
    /\ DoResend(1, TRUE)
    /\ UNCHANGED environment

LiveReceive ==
    /\ pc[1] \in {"receive", "receive_busy", "receive_pending"}
    /\ \E data \in Messages(request[1]) : Fits(1, data) /\ DoReceive(1, data)
    /\ UNCHANGED environment

LiveRounds ==
    /\ pc[1] = "receive_busy"
    /\ \E target \in CounterTargets :
         /\ target < retry_counter[1]
         /\ (target < 0) = (retry_counter[1] < 0)
         /\ DoBusyRounds(1, retry_counter[1] - target)
    /\ UNCHANGED << calls, wire, overflow_checks >>

LiveReturn ==
    /\ DoReturn(1)
    /\ UNCHANGED environment

NextLive ==
    LiveCall \/ LiveFirstSend \/ LiveResend \/ LiveReceive \/ LiveRounds \/ LiveReturn

SpecLive == Init /\ [][NextLive]_vars /\ WF_vars(NextLive)

\* The call of task 1 is inside send_and_receive, at one of its .awaits.
InExchange == pc[1] \in {"send", "receive", "resend", "receive_busy", "receive_pending"}

\* The last message the exchange received is neither a BusyRepeatRequest
\* nor a response-pending negative response for the request's SID.
FinalDelivered ==
    /\ pc[1] # "idle"
    /\ trace[1] # << >>
    /\ Received(Last(trace[1]))
    /\ ~ IsBusyFor(Last(trace[1]).data, Sid(1))
    /\ ~ IsPendingFor(Last(trace[1]).data, Sid(1))

\* send_and_receive has returned Ok or Err.
ReturnedOkOrErr == pc[1] = "done" /\ result[1].kind \in {"Ok", "Err"}

\* C28: over a transport that never fails and delivers a message to every
\* receive, an exchange whose ECU does not answer with the two retry codes
\* for ever comes to its end, and once a message is delivered that is
\* neither of the two retry codes for the request's SID send_and_receive
\* has returned Ok or Err.
C28_ExchangeReturns ==
    /\ InExchange ~> pc[1] = "done"
    /\ [](FinalDelivered => ReturnedOkOrErr)

C28_Witness ==
    /\ ReturnedOkOrErr
    /\ FinalDelivered
    /\ retry_counter[1] = -1
    /\ Len(trace[1]) = 5
    /\ IsBusyFor(trace[1][2].data, Sid(1))
    /\ IsPendingFor(trace[1][4].data, Sid(1))

(***************************************************************************)
(* What the claims about the outcome of a service method speak of.         *)
(***************************************************************************)
\* The method of task 1 has applied its parse function, or returned the
\* error of its exchange.
MethodDone(svc) == pc[1] = "parsed" /\ service[1].svc = svc

\* C29: no index out of bounds is reachable through the service methods:
\* whenever read_memory_by_address gives a response to parse_response the
\* response has at least one byte, and no parse function panics on
\* raw_response[0] or raw_response[1..].
C29_NoIndexOutOfBounds ==
    pc[1] = "parsed"
    => /\ result[1].kind # "Panic"
       /\ (service[1].svc = "read_memory_by_address" /\ HandedToParse(1))
          => Len(raw_response[1]) >= 1

\* C30: whenever write_data_by_identifier(d, data) returns
\* Ok(WriteDataByIdentifier(Parsed(r))), r.data_identifier is d.
C30_WriteEchoesRequestedDid ==
    ( /\ MethodDone("write_data_by_identifier")
      /\ result[1].kind = "Ok"
      /\ result[1].data.response = "WriteDataByIdentifier"
      /\ result[1].data.data.format = "Parsed" )
    => result[1].data.data.value.data_identifier = service[1].args.data_identifier

====
